---- MODULE Spec2Model ----
(***************************************************************************)
(* A state-machine model of the physical plan builder                      *)
(* (src/query/sql/src/executor/physical_plan_builder.rs).                  *)
(*                                                                         *)
(* PhysicalPlanBuilder::build is an async recursion over a relational      *)
(* tree.  It is modelled as an explicit stack of frames per builder        *)
(* instance: a frame is one activation of build, its pc the place inside   *)
(* the handler where the activation waits (for a child build or for the    *)
(* table's read plan).  ret is the value the last finished activation      *)
(* handed to its caller.                                                   *)
(***************************************************************************)
EXTENDS Integers, Sequences, FiniteSets, TLC

VARIABLES
    s_expr,         \* the relational tree handed to build (read-only input)
    next_plan_id,   \* PhysicalPlanBuilder.next_plan_id, one cell per builder
    stack,          \* per builder: the activations of build, innermost last
    ret,            \* per builder: the value returned by the last activation
    semaphore,      \* QueueManager.semaphore: free permits and its wait list
    queue,          \* QueueManager.queue: the map from key to Inner
    queue_lock,     \* who holds the Mutex around QueueManager.queue
    futures,        \* per acquire: its AcquireQueueFuture and its task
    remover,        \* the thread that calls QueueManager::remove
    reader          \* a ResultCacheReader and its call of try_read_cached_result

vars == <<s_expr, next_plan_id, stack, ret,
          semaphore, queue, queue_lock, futures, remover, reader>>

\* The state of the admission queue (sessions/queue_mgr.rs) and of the plan
\* builder; each half of the model leaves the other half alone.
queue_vars == <<semaphore, queue, queue_lock, futures, remover>>
builder_vars == <<s_expr, next_plan_id, stack, ret>>

(***************************************************************************)
(* Bounds of the model.                                                    *)
(***************************************************************************)
\* Largest number of relational nodes of a tree handed to one build pass.
MaxNodes == 4
\* Largest number of nodes of a tree built by two passes side by side.
MaxPairNodes == 3
\* Largest required column set of a scan whose push-downs are enumerated.
MaxScanCols == 3

Builders == {"b1", "b2"}

(***************************************************************************)
(* Generic helpers.                                                        *)
(***************************************************************************)
None == [t |-> "None"]
Some(v) == [t |-> "Some", v |-> v]
Ok(v) == [t |-> "Ok", v |-> v]
Err(code, msg) == [t |-> "Err", code |-> code, msg |-> msg]
\* A Rust panic (unwrap on an Err/None, expect): the task unwinds.
Panic(msg) == [t |-> "Panic", msg |-> msg]

Range(s) == {s[i] : i \in 1..Len(s)}

\* All sequences that enumerate the finite set S once each: the orders in
\* which iterating a HashSet may yield its elements.
RECURSIVE IterOrders(_)
IterOrders(S) ==
    IF S = {} THEN {<<>>}
    ELSE UNION {{<<x>> \o rest : rest \in IterOrders(S \ {x})} : x \in S}

\* Insert x into the ascending sequence s.
RECURSIVE InsertSorted(_, _)
InsertSorted(x, s) ==
    IF s = <<>> THEN <<x>>
    ELSE IF x <= Head(s) THEN <<x>> \o s
    ELSE <<Head(s)>> \o InsertSorted(x, Tail(s))

\* Itertools::sorted on a sequence of integers.
RECURSIVE sorted(_)
sorted(s) ==
    IF s = <<>> THEN <<>> ELSE InsertSorted(Head(s), sorted(Tail(s)))

Digits == <<"0", "1", "2", "3", "4", "5", "6", "7", "8", "9">>

\* usize::to_string: the decimal numeral of n.
RECURSIVE to_string(_)
to_string(n) ==
    IF n < 10 THEN Digits[n + 1]
    ELSE to_string(n \div 10) \o Digits[(n % 10) + 1]

(***************************************************************************)
(* Schemas: a sequence of fields; positions are counted from 0.            *)
(***************************************************************************)
DataField(name, data_type) == [name |-> name, data_type |-> data_type]

\* DataSchema::index_of / TableSchema::index_of: position of the field of
\* that name, or an error when no field has it.
index_of(schema, name) ==
    LET hits == {i \in 1..Len(schema) : schema[i].name = name}
    IN IF hits = {} THEN Err("BadArguments", name)
       ELSE Ok((CHOOSE i \in hits : \A j \in hits : i <= j) - 1)

\* DataSchema::field_with_name.
field_with_name(schema, name) ==
    LET at == index_of(schema, name)
    IN IF at.t = "Err" THEN at ELSE Ok(schema[at.v + 1])

(***************************************************************************)
(* The metadata registry and the catalog, as bound for one build pass.     *)
(* Two tables: table 0 (uid, name, addr) with the nested column addr:zip,  *)
(* table 1 (id).  Logical column indices are declared in an order that is  *)
(* neither the tables' field order nor the alphabetical order.             *)
(***************************************************************************)
BaseTableColumn(table_index, column_name, path_indices, data_type) ==
    [entry |-> "BaseTableColumn", table_index |-> table_index,
     column_name |-> column_name, path_indices |-> path_indices,
     data_type |-> data_type]

DerivedColumn(alias, data_type) ==
    [entry |-> "DerivedColumn", alias |-> alias, data_type |-> data_type]

MetadataColumns ==
    <<BaseTableColumn(0, "name", None, "Text"),
      BaseTableColumn(0, "uid", None, "Int"),
      BaseTableColumn(0, "addr", None, "Tuple"),
      BaseTableColumn(0, "addr:zip", Some(<<2, 0>>), "Int"),
      BaseTableColumn(1, "id", None, "Int")>>

\* Metadata::column(index); logical indices count from 0.
column(index) == MetadataColumns[index + 1]

\* The name a column entry is known by in its table's schema.
column_name_of(index) ==
    LET c == column(index)
    IN IF c.entry = "BaseTableColumn" THEN c.column_name ELSE c.alias

TableSchemas ==
    <<  <<DataField("uid", "Int"), DataField("name", "Text"),
          DataField("addr", "Tuple")>>,
        <<DataField("id", "Int")>>  >>

\* table_entry.table().schema()
table_schema(table_index) == TableSchemas[table_index + 1]

\* The key order of a BTreeMap<String, _> over the column names in use.
NameOrder == <<"addr", "addr:zip", "dummy", "id", "name", "uid">>

(***************************************************************************)
(* Scalar expressions of the relational tree, and their physical form.     *)
(***************************************************************************)
BoundColumnRef(index) == [t |-> "BoundColumnRef", index |-> index]
ConstantExpr(value) == [t |-> "ConstantExpr", value |-> value]
AndExpr(left, right) == [t |-> "AndExpr", left |-> left, right |-> right]
UnnestExpr(argument) == [t |-> "Unnest", argument |-> argument]
AggregateFunction(func_name, args) ==
    [t |-> "AggregateFunction", func_name |-> func_name, args |-> args]

\* RemoteExpr::ColumnRef { id, .. }
ColumnRef(id) == [t |-> "ColumnRef", id |-> id]

\* scalar.as_expr_with_col_index()?.project_column_ref(|index|
\*     schema.index_of(&index.to_string()).unwrap()):
\* every column reference becomes its position in schema; the unwrap panics
\* when the schema has no field of that name.
RECURSIVE project_column_ref(_, _)
project_column_ref(scalar, schema) ==
    CASE scalar.t = "BoundColumnRef" ->
            LET at == index_of(schema, to_string(scalar.index))
            IN IF at.t = "Err"
               THEN Panic("unwrap on an Err value")
               ELSE ColumnRef(at.v)
      [] scalar.t = "ConstantExpr" ->
            [t |-> "Constant", value |-> scalar.value]
      [] scalar.t = "AndExpr" ->
            LET l == project_column_ref(scalar.left, schema)
                r == project_column_ref(scalar.right, schema)
            IN IF l.t = "Panic" THEN l
               ELSE IF r.t = "Panic" THEN r
               ELSE [t |-> "FunctionCall", name |-> "and", args |-> <<l, r>>]

\* ConstantFolder::fold: a call whose arguments are all literals is replaced
\* by its value; everything else is kept.
RECURSIVE fold(_)
fold(expr) ==
    IF expr.t = "FunctionCall"
    THEN LET l == fold(expr.args[1])
             r == fold(expr.args[2])
         IN IF l.t = "Constant" /\ r.t = "Constant"
            THEN [t |-> "Constant", value |-> (l.value /\ r.value)]
            ELSE [expr EXCEPT !.args = <<l, r>>]
    ELSE expr

\* The rebinding of one scalar against one schema, folded, as a RemoteExpr;
\* a Panic when a column is missing from the schema.
rebind(scalar, schema) ==
    LET e == project_column_ref(scalar, schema)
    IN IF e.t = "Panic" THEN e ELSE fold(e)

\* The rebinding of a list of scalars, in order: Ok(list) or the first Panic.
rebind_all(scalars, schema) ==
    LET es == [i \in 1..Len(scalars) |-> rebind(scalars[i], schema)]
        bad == {i \in 1..Len(scalars) : es[i].t = "Panic"}
    IN IF bad = {} THEN Ok(es)
       ELSE es[CHOOSE i \in bad : \A j \in bad : i <= j]

\* predicate.as_expr_with_col_name(): column references by column name.
RECURSIVE as_expr_with_col_name(_)
as_expr_with_col_name(scalar) ==
    CASE scalar.t = "BoundColumnRef" ->
            [t |-> "ColumnRef", id |-> column_name_of(scalar.index)]
      [] scalar.t = "ConstantExpr" ->
            [t |-> "Constant", value |-> scalar.value]
      [] scalar.t = "AndExpr" ->
            [t |-> "FunctionCall", name |-> "and",
             args |-> <<as_expr_with_col_name(scalar.left),
                        as_expr_with_col_name(scalar.right)>>]

\* cast_expr_to_non_null_boolean
cast_expr_to_non_null_boolean(expr) ==
    [t |-> "Cast", to |-> "Boolean", expr |-> expr]

\* Iterator::reduce with AndExpr over a non-empty list of predicates.
RECURSIVE reduce_and(_)
reduce_and(predicates) ==
    IF Len(predicates) = 1 THEN predicates[1]
    ELSE AndExpr(reduce_and(SubSeq(predicates, 1, Len(predicates) - 1)),
                 predicates[Len(predicates)])

(***************************************************************************)
(* Projection Builder and Push-down Assembler.                             *)
(***************************************************************************)
\* What the unsorted mutant does: the positions in iteration order.
UnsortedIndices(col_indices) == col_indices

\* .sorted() of the flat branch
SortedIndices(col_indices) == sorted(col_indices)

\* PhysicalPlanBuilder::build_projection.  order is the sequence in which
\* columns.iter() yields the column set.
build_projection(schema, order, has_inner_column) ==
    IF ~has_inner_column
    THEN LET at == [i \in 1..Len(order) |->
                        index_of(schema, column_name_of(order[i]))]
         IN IF \E i \in 1..Len(order) : at[i].t = "Err"
            THEN Panic("unwrap on an Err value")
            ELSE [t |-> "Columns",
                  v |-> SortedIndices([i \in 1..Len(order) |-> at[i].v])]
    ELSE LET path(index) ==
                 LET c == column(index)
                 IN IF c.entry = "BaseTableColumn" /\ c.path_indices.t = "Some"
                    THEN Ok(c.path_indices.v)
                    ELSE LET at == index_of(schema, column_name_of(index))
                         IN IF at.t = "Err" THEN at ELSE Ok(<<at.v>>)
         IN IF \E i \in 1..Len(order) : path(order[i]).t = "Err"
            THEN Panic("unwrap on an Err value")
            ELSE [t |-> "InnerColumns",
                  v |-> [index \in Range(order) |-> path(index).v]]

\* What a mutant that forgets the difference does.
AllColumns(columns, prewhere_columns) == columns

\* scan.columns.difference(&prewhere.prewhere_columns)
remain_columns_of(columns, prewhere_columns) == columns \ prewhere_columns

\* The prewhere_info closure of push_downs.  orders gives the iteration
\* order of each of the three column sets.
prewhere_info(scan, schema, has_inner_column, orders) ==
    LET prewhere == scan.prewhere.v
        output_columns ==
            build_projection(schema, orders.output, has_inner_column)
        prewhere_columns ==
            build_projection(schema, orders.prewhere, has_inner_column)
        remain_columns ==
            build_projection(schema, orders.remain, has_inner_column)
    IN IF output_columns.t = "Panic" THEN output_columns
       ELSE IF prewhere_columns.t = "Panic" THEN prewhere_columns
       ELSE IF remain_columns.t = "Panic" THEN remain_columns
       ELSE IF prewhere.predicates = <<>>
       THEN Panic("there should be at least one predicate in prewhere")
       ELSE Ok([output_columns |-> output_columns,
                prewhere_columns |-> prewhere_columns,
                remain_columns |-> remain_columns,
                filter |-> fold(cast_expr_to_non_null_boolean(
                    as_expr_with_col_name(reduce_and(prewhere.predicates))))])

\* The iteration orders push_downs may see for the column sets of scan.
PushDownOrders(scan) ==
    IF scan.prewhere.t = "None"
    THEN {[columns |-> o] : o \in IterOrders(scan.columns)}
    ELSE {[columns |-> o, output |-> oo, prewhere |-> op, remain |-> orr] :
            o \in IterOrders(scan.columns),
            oo \in IterOrders(scan.prewhere.v.output_columns),
            op \in IterOrders(scan.prewhere.v.prewhere_columns),
            orr \in IterOrders(remain_columns_of(
                        scan.columns, scan.prewhere.v.prewhere_columns))}

\* PhysicalPlanBuilder::push_downs: Ok(PushDownInfo) or a Panic.  The scans
\* of the model carry no push-down predicates and no order-by.
push_downs(scan, schema, has_inner_column, orders) ==
    LET projection ==
            build_projection(schema, orders.columns, has_inner_column)
        prewhere ==
            IF scan.prewhere.t = "None" THEN Ok(None)
            ELSE prewhere_info(scan, schema, has_inner_column, orders)
    IN IF projection.t = "Panic" THEN projection
       ELSE IF prewhere.t = "Panic" THEN prewhere
       ELSE Ok([projection |-> Some(projection),
                filter |-> None,
                prewhere |-> IF prewhere.v = None THEN None
                             ELSE Some(prewhere.v),
                limit |-> scan.limit,
                order_by |-> <<>>])

(***************************************************************************)
(* Physical plans.  A plan is a record tagged by plan; an Exchange is the  *)
(* one kind without a plan_id.                                             *)
(***************************************************************************)
\* The children a physical plan owns, in field order.
plan_children(p) ==
    CASE p.plan = "TableScan" -> <<>>
      [] p.plan = "HashJoin" -> <<p.build, p.probe>>
      [] p.plan = "UnionAll" -> <<p.left, p.right>>
      [] p.plan = "RuntimeFilterSource" -> <<p.left_side, p.right_side>>
      [] OTHER -> <<p.input>>

\* Type of the field of that name in schema (for derived fields).
type_in(schema, name) ==
    LET f == field_with_name(schema, name)
    IN IF f.t = "Ok" THEN f.v.data_type ELSE "Null"

\* PhysicalPlan::output_schema, per plan kind.
RECURSIVE output_schema(_)
output_schema(p) ==
    CASE p.plan = "TableScan" ->
            LET names == SelectSeq(NameOrder,
                                   LAMBDA n : n \in DOMAIN p.name_mapping)
            IN [i \in 1..Len(names) |->
                   DataField(to_string(p.name_mapping[names[i]]),
                             type_in(p.source.schema, names[i]))]
      [] p.plan \in {"Filter", "Sort", "Limit", "Exchange", "Unnest"} ->
            output_schema(p.input)
      [] p.plan = "EvalScalar" ->
            output_schema(p.input) \o
            [i \in 1..Len(p.exprs) |->
                DataField(to_string(p.exprs[i].index), "Int")]
      [] p.plan = "AggregatePartial" ->
            LET input_schema == output_schema(p.input)
            IN [i \in 1..Len(p.group_by) |->
                   DataField(to_string(p.group_by[i]),
                             type_in(input_schema, to_string(p.group_by[i])))]
               \o
               [i \in 1..Len(p.agg_funcs) |->
                   DataField(to_string(p.agg_funcs[i].output_column), "State")]
      [] p.plan = "AggregateFinal" ->
            [i \in 1..Len(p.group_by) |->
                DataField(to_string(p.group_by[i]),
                          type_in(p.before_group_by_schema,
                                  to_string(p.group_by[i])))]
            \o
            [i \in 1..Len(p.agg_funcs) |->
                DataField(to_string(p.agg_funcs[i].output_column),
                          p.agg_funcs[i].sig.return_type)]
      [] p.plan = "HashJoin" ->
            output_schema(p.probe) \o output_schema(p.build)
      [] p.plan = "UnionAll" -> p.schema
      [] p.plan = "RuntimeFilterSource" -> output_schema(p.left_side)

(***************************************************************************)
(* Relational trees.  A node is a record tagged by op with its children    *)
(* and the attributes of its operator.                                     *)
(***************************************************************************)
\* Stand-ins for crate::DUMMY_COLUMN_INDEX and crate::DUMMY_TABLE_INDEX
\* (usize::MAX in the crate, beyond TLC's integers); only their being
\* different from every bound column and table index matters here.
DUMMY_COLUMN_INDEX == 99
DUMMY_TABLE_INDEX == 98

Prewhere(output_columns, prewhere_columns, predicates) ==
    [output_columns |-> output_columns, prewhere_columns |-> prewhere_columns,
     predicates |-> predicates]

\* read_plan is the answer of table.read_plan_with_catalog to this scan.
Scan(table_index, columns, prewhere, read_plan) ==
    [op |-> "Scan", children |-> <<>>, table_index |-> table_index,
     columns |-> columns, prewhere |-> prewhere, limit |-> None,
     read_plan |-> read_plan]

DummyTableScan(get_table, read_plan) ==
    [op |-> "DummyTableScan", children |-> <<>>, get_table |-> get_table,
     read_plan |-> read_plan]

\* An operator kind build has no arm for.
Pattern == [op |-> "Pattern", children |-> <<>>]

ScalarItem(scalar, index) == [scalar |-> scalar, index |-> index]
SortItem(index, asc, nulls_first) ==
    [index |-> index, asc |-> asc, nulls_first |-> nulls_first]

\* The operators with one child, without the child.
FilterOp == [op |-> "Filter", children |-> <<>>,
             predicates |-> <<BoundColumnRef(1)>>]
EvalScalarOp == [op |-> "EvalScalar", children |-> <<>>,
                 items |-> <<ScalarItem(BoundColumnRef(1), 5)>>]
EvalUnnestOp == [op |-> "EvalScalar", children |-> <<>>,
                 items |-> <<ScalarItem(BoundColumnRef(1), 5),
                             ScalarItem(UnnestExpr(BoundColumnRef(0)), 6),
                             ScalarItem(UnnestExpr(BoundColumnRef(1)), 7)>>]
AggregateOp(mode) ==
    [op |-> "Aggregate", children |-> <<>>, mode |-> mode,
     group_items |-> <<ScalarItem(BoundColumnRef(1), 1)>>,
     aggregate_functions |->
        <<ScalarItem(AggregateFunction("count", <<BoundColumnRef(0)>>), 8)>>,
     limit |-> None]
SortOp == [op |-> "Sort", children |-> <<>>,
           items |-> <<SortItem(1, TRUE, FALSE), SortItem(4, FALSE, TRUE)>>,
           limit |-> Some(3)]
LimitOp == [op |-> "Limit", children |-> <<>>, limit |-> Some(2), offset |-> 1]
ExchangeOp(exchange) ==
    [op |-> "Exchange", children |-> <<>>, exchange |-> exchange]
ExchangeRandom == [t |-> "Random"]
ExchangeHash == [t |-> "Hash", scalars |-> <<BoundColumnRef(1)>>]
ExchangeBroadcast == [t |-> "Broadcast"]
ExchangeMerge == [t |-> "Merge"]

UnaryOps ==
    {FilterOp, EvalScalarOp, EvalUnnestOp, AggregateOp("Partial"),
     AggregateOp("Final"), AggregateOp("Initial"), SortOp, LimitOp,
     ExchangeOp(ExchangeRandom), ExchangeOp(ExchangeHash),
     ExchangeOp(ExchangeBroadcast), ExchangeOp(ExchangeMerge)}

\* The operators with two children, without the children.
JoinOp == [op |-> "Join", children |-> <<>>, join_type |-> "Inner",
           left_conditions |-> <<BoundColumnRef(1)>>,
           right_conditions |-> <<BoundColumnRef(4)>>,
           non_equi_conditions |-> <<BoundColumnRef(4)>>]
UnionAllOp == [op |-> "UnionAll", children |-> <<>>,
               pairs |-> << <<1, 4>>, <<0, 4>> >>]
\* The runtime filters are BTreeMaps, given in key order as <<id, scalar>>.
RuntimeFilterSourceOp ==
    [op |-> "RuntimeFilterSource", children |-> <<>>,
     left_runtime_filters |-> << <<"f0", BoundColumnRef(1)>>,
                                 <<"f1", BoundColumnRef(0)>> >>,
     right_runtime_filters |-> << <<"f0", BoundColumnRef(4)>> >>]

BinaryOps == {JoinOp, UnionAllOp, RuntimeFilterSourceOp}

WithChildren(node, children) == [node EXCEPT !.children = children]

\* The leaves a tree may consist of: the scan of (name, uid) of table 0, the
\* scan of (id) of table 1, the dummy scan, an unsupported operator.
Leaves ==
    {Scan(0, {0, 1}, None, "Ok"), Scan(1, {4}, None, "Ok"),
     DummyTableScan("Ok", "Ok"), Pattern}

\* Below its root a tree is grown from fewer operators, to keep the number
\* of trees of a size small: the root takes every operator.
InnerLeaves == {Scan(0, {0, 1}, None, "Ok"), Scan(1, {4}, None, "Ok"), Pattern}
InnerUnaryOps ==
    {FilterOp, SortOp, AggregateOp("Partial"), ExchangeOp(ExchangeHash)}
InnerBinaryOps == {JoinOp, UnionAllOp}

\* All subtrees of exactly n nodes.
RECURSIVE InnerTreesOfSize(_)
InnerTreesOfSize(n) ==
    IF n = 1 THEN InnerLeaves
    ELSE {WithChildren(u, <<c>>) :
            u \in InnerUnaryOps, c \in InnerTreesOfSize(n - 1)}
         \cup
         UNION {{WithChildren(b, <<l, r>>) :
                    b \in InnerBinaryOps, l \in InnerTreesOfSize(k),
                    r \in InnerTreesOfSize(n - 1 - k)} : k \in 1..(n - 2)}

\* All trees of exactly n nodes.
TreesOfSize(n) ==
    IF n = 1 THEN Leaves
    ELSE {WithChildren(u, <<c>>) :
            u \in UnaryOps, c \in InnerTreesOfSize(n - 1)}
         \cup
         UNION {{WithChildren(b, <<l, r>>) :
                    b \in BinaryOps, l \in InnerTreesOfSize(k),
                    r \in InnerTreesOfSize(n - 1 - k)} : k \in 1..(n - 2)}

Trees(max) == UNION {TreesOfSize(n) : n \in 1..max}

\* Scans of table 0 with every required column set of at most MaxScanCols
\* columns, without and with a prewhere split (the prewhere columns a
\* non-empty subset of the required ones, the output columns all required
\* columns or those the predicate does not need), and both answers of the
\* table to the read-plan request; and the dummy scan's failures.
ScanColumnSets ==
    {cs \in SUBSET {0, 1, 2, 3} : cs # {} /\ Cardinality(cs) <= MaxScanCols}

PrewhereSplits(cs) ==
    {Prewhere(out, pw,
              <<BoundColumnRef(CHOOSE c \in pw : \A d \in pw : c <= d)>>) :
        <<pw, out>> \in {x \in (SUBSET cs) \X (SUBSET cs) :
                            x[1] # {} /\ x[2] \in {cs, cs \ x[1]}}}

RichScans ==
    {Scan(0, cs, None, rp) : cs \in ScanColumnSets, rp \in {"Ok", "Err"}}
    \cup
    UNION {{Scan(0, cs, Some(pre), rp) :
                pre \in PrewhereSplits(cs), rp \in {"Ok", "Err"}} :
            cs \in ScanColumnSets}

\* Trees with a node the optimizer derives no relational property for: a
\* scan, a Sort over a scan, and a Join whose build side is such a scan.
Underivable(node) == node @@ [derive |-> "Err"]

UnderivableTrees ==
    {Underivable(Scan(0, {0, 1}, None, "Ok")),
     Underivable(WithChildren(SortOp, <<Scan(1, {4}, None, "Ok")>>)),
     WithChildren(JoinOp, <<Scan(0, {0, 1}, None, "Ok"),
                            Underivable(Scan(1, {4}, None, "Ok"))>>)}

InputTrees ==
    Trees(MaxNodes) \cup RichScans \cup UnderivableTrees
    \cup {DummyTableScan("Err", "Ok"), DummyTableScan("Ok", "Err")}

PairTrees == Trees(MaxPairNodes) \cup UnderivableTrees

(***************************************************************************)
(* The builder: activations of build, calls, suspensions and returns.      *)
(***************************************************************************)
\* RelExpr::derive_relational_prop, the optimizer's answer for a node: an
\* error for a node it cannot derive a property for, else a cardinality
\* that tells the nodes of a tree apart.
RECURSIVE node_count(_)
node_count(node) ==
    IF node.children = <<>> THEN 1
    ELSE IF Len(node.children) = 1 THEN 1 + node_count(node.children[1])
    ELSE 1 + node_count(node.children[1]) + node_count(node.children[2])

derive_relational_prop(node) ==
    IF "derive" \in DOMAIN node
    THEN Err("Internal", "derive_relational_prop")
    ELSE Ok([cardinality |-> 7 * node_count(node)])

\* What a mutant that derives the estimate from the node's first child does.
StatInfoOfFirstChild(node) ==
    LET of == IF node.children = <<>> THEN node ELSE node.children[1]
        prop == derive_relational_prop(of)
    IN IF prop.t = "Err" THEN prop
       ELSE Ok([estimated_rows |-> prop.v.cardinality])

\* PhysicalPlanBuilder::build_plan_stat_info
build_plan_stat_info(node) ==
    LET prop == derive_relational_prop(node)
    IN IF prop.t = "Err" THEN prop
       ELSE Ok([estimated_rows |-> prop.v.cardinality])

\* A fresh activation of build(node).
Frame(node) ==
    [node |-> node, pc |-> "start", stat_info |-> None, built |-> <<>>,
     held |-> None]

Top(b) == stack[b][Len(stack[b])]

\* Builder b's innermost activation is in the handler of op, at pc; the
\* handler is entered only with the stat info of the node built.
At(b, op, pc) ==
    /\ stack[b] # <<>>
    /\ Top(b).node.op = op
    /\ Top(b).pc = pc
    /\ pc = "start" => build_plan_stat_info(Top(b).node).t = "Ok"

\* The innermost activation becomes f and calls build(child).
Call(b, f, child) ==
    /\ stack' = [stack EXCEPT
                    ![b] = SubSeq(@, 1, Len(@) - 1) \o <<f, Frame(child)>>]
    /\ ret' = [ret EXCEPT ![b] = None]
    /\ UNCHANGED <<queue_vars, reader>>

\* The innermost activation becomes f and waits at an await point.
Suspend(b, f) ==
    /\ stack' = [stack EXCEPT ![b] = SubSeq(@, 1, Len(@) - 1) \o <<f>>]
    /\ ret' = [ret EXCEPT ![b] = None]
    /\ UNCHANGED <<queue_vars, reader>>

\* The innermost activation ends with value: Ok and Err go to the caller, a
\* Panic unwinds every activation of the pass.
Return(b, value) ==
    /\ stack' = [stack EXCEPT
                    ![b] = IF value.t = "Panic" THEN <<>>
                           ELSE SubSeq(@, 1, Len(@) - 1)]
    /\ ret' = [ret EXCEPT ![b] = value]
    /\ UNCHANGED <<queue_vars, reader>>

\* What a mutant with one process-wide counter does.
SharedPlanIdCell(b) == "b1"

\* The counter a builder draws from: its own next_plan_id field.
PlanIdCell(b) == b

\* PhysicalPlanBuilder::next_plan_id, called n times: the first id drawn is
\* peek_plan_id(b).  The trees of the model keep the counter far below
\* u32::MAX.
peek_plan_id(b) == next_plan_id[PlanIdCell(b)]

\* What a mutant whose counter hands out its value without moving on does.
KeepCounter(b, n) ==
    next_plan_id' = next_plan_id

\* self.next_plan_id += 1, n times.
DrawPlanIds(b, n) ==
    next_plan_id' = [next_plan_id EXCEPT ![PlanIdCell(b)] = @ + n]

\* build, its first statement: build_plan_stat_info(s_expr)? fails.
BuildStatInfoFails(b) ==
    /\ stack[b] # <<>>
    /\ Top(b).pc = "start"
    /\ build_plan_stat_info(Top(b).node).t = "Err"
    /\ Return(b, build_plan_stat_info(Top(b).node))
    /\ UNCHANGED <<s_expr, next_plan_id>>

(***************************************************************************)
(* Scan and DummyTableScan.                                                *)
(***************************************************************************)
\* The loop over scan.columns: has_inner_column.
has_inner_column_of(scan) ==
    \E index \in scan.columns :
        /\ column(index).entry = "BaseTableColumn"
        /\ column(index).path_indices.t = "Some"

\* The loop over scan.columns: name_mapping (a BTreeMap from name to index).
name_mapping_of(scan) ==
    LET kept == IF scan.prewhere.t = "Some"
                THEN scan.columns \cap scan.prewhere.v.output_columns
                ELSE scan.columns
    IN [n \in {column_name_of(i) : i \in kept} |->
            CHOOSE i \in kept : column_name_of(i) = n]

\* build, Scan arm, up to the await of read_plan_with_catalog.
ScanStart(b) ==
    /\ At(b, "Scan", "start")
    /\ LET scan == Top(b).node
           has_inner_column == has_inner_column_of(scan)
       IN \E orders \in PushDownOrders(scan) :
            LET pd == push_downs(scan, table_schema(scan.table_index),
                                 has_inner_column, orders)
            IN IF pd.t = "Panic" THEN Return(b, pd)
               ELSE Suspend(b, [Top(b) EXCEPT
                        !.pc = "read_plan",
                        !.stat_info = build_plan_stat_info(scan).v,
                        !.held = [name_mapping |-> name_mapping_of(scan),
                                  push_downs |-> pd.v]])
    /\ UNCHANGED <<s_expr, next_plan_id>>

\* build, Scan arm, from the answer of read_plan_with_catalog on.
ScanReadPlan(b) ==
    /\ At(b, "Scan", "read_plan")
    /\ LET f == Top(b)
       IN IF f.node.read_plan = "Err"
          THEN /\ Return(b, Err("StorageOther", "read plan"))
               /\ UNCHANGED next_plan_id
          ELSE /\ Return(b, Ok([plan |-> "TableScan",
                                plan_id |-> peek_plan_id(b),
                                name_mapping |-> f.held.name_mapping,
                                source |-> [schema |-> table_schema(
                                                f.node.table_index),
                                            push_downs |->
                                                Some(f.held.push_downs)],
                                table_index |-> f.node.table_index,
                                stat_info |-> Some(f.stat_info)]))
               /\ DrawPlanIds(b, 1)
    /\ UNCHANGED s_expr

\* build, DummyTableScan arm, up to the await of get_table.
DummyStart(b) ==
    /\ At(b, "DummyTableScan", "start")
    /\ Suspend(b, [Top(b) EXCEPT
                      !.pc = "get_table",
                      !.stat_info = build_plan_stat_info(Top(b).node).v])
    /\ UNCHANGED <<s_expr, next_plan_id>>

\* build, DummyTableScan arm, from get_table to the await of the read plan.
DummyGetTable(b) ==
    /\ At(b, "DummyTableScan", "get_table")
    /\ IF Top(b).node.get_table = "Err"
       THEN Return(b, Err("UnknownTable", "system.one"))
       ELSE Suspend(b, [Top(b) EXCEPT !.pc = "read_plan"])
    /\ UNCHANGED <<s_expr, next_plan_id>>

\* build, DummyTableScan arm, from the answer of read_plan_with_catalog on.
DummyReadPlan(b) ==
    /\ At(b, "DummyTableScan", "read_plan")
    /\ IF Top(b).node.read_plan = "Err"
       THEN /\ Return(b, Err("StorageOther", "read plan"))
            /\ UNCHANGED next_plan_id
       ELSE /\ Return(b, Ok([plan |-> "TableScan",
                             plan_id |-> peek_plan_id(b),
                             name_mapping |->
                                [n \in {"dummy"} |-> DUMMY_COLUMN_INDEX],
                             source |-> [schema |->
                                            <<DataField("dummy", "UInt8")>>,
                                         push_downs |-> None],
                             table_index |-> DUMMY_TABLE_INDEX,
                             stat_info |-> Some([estimated_rows |-> 1])]))
            /\ DrawPlanIds(b, 1)
    /\ UNCHANGED s_expr

\* build, the arm of every operator kind without a handler.
Unsupported(b) ==
    /\ At(b, "Pattern", "start")
    /\ Return(b, Err("Internal", "Unsupported physical plan"))
    /\ UNCHANGED <<s_expr, next_plan_id>>

(***************************************************************************)
(* Join.                                                                   *)
(***************************************************************************)
\* What a mutant that builds the probe side first does.
ProbeFirstOrder == <<0, 1>>

\* The children of a Join in the order build awaits them: child(1), the
\* build side, then child(0), the probe side.
JoinChildOrder == <<1, 0>>

\* What a mutant that puts the build fields first does.
BuildFirstSchema(probe_schema, build_schema) == build_schema \o probe_schema

\* merged_schema: probe_schema.fields().iter().chain(build_schema.fields())
merged_schema_of(probe_schema, build_schema) == probe_schema \o build_schema

\* What a mutant that rebinds the build keys in the merged schema does.
KeysInMergedSchema(join, build_schema, probe_schema) ==
    rebind_all(join.right_conditions,
               merged_schema_of(probe_schema, build_schema))

\* build_keys: the right conditions, rebound against build_schema.
build_keys_of(join, build_schema, probe_schema) ==
    rebind_all(join.right_conditions, build_schema)

\* probe_keys: the left conditions, rebound against probe_schema.
probe_keys_of(join, build_schema, probe_schema) ==
    rebind_all(join.left_conditions, probe_schema)

\* non_equi_conditions, rebound against merged_schema.
non_equi_conditions_of(join, build_schema, probe_schema) ==
    rebind_all(join.non_equi_conditions,
               merged_schema_of(probe_schema, build_schema))

\* build, Join arm: the first child build.
JoinStart(b) ==
    /\ At(b, "Join", "start")
    /\ Call(b, [Top(b) EXCEPT !.pc = "first_side",
                              !.stat_info = build_plan_stat_info(Top(b).node).v],
            Top(b).node.children[JoinChildOrder[1] + 1])
    /\ UNCHANGED <<s_expr, next_plan_id>>

\* What a mutant that goes on to the probe side whatever the build side
\* gave does.
JoinFirstSideUnchecked(b) ==
    /\ At(b, "Join", "first_side")
    /\ ret[b] # None
    /\ Call(b, [Top(b) EXCEPT !.pc = "second_side",
                              !.built = <<ret[b]>>],
            Top(b).node.children[JoinChildOrder[2] + 1])
    /\ UNCHANGED <<s_expr, next_plan_id>>

\* build, Join arm: the first child is built (or failed: ?), the second
\* child build starts.
JoinFirstSide(b) ==
    /\ At(b, "Join", "first_side")
    /\ ret[b] # None
    /\ IF ret[b].t # "Ok" THEN Return(b, ret[b])
       ELSE Call(b, [Top(b) EXCEPT !.pc = "second_side",
                                   !.built = <<ret[b].v>>],
                 Top(b).node.children[JoinChildOrder[2] + 1])
    /\ UNCHANGED <<s_expr, next_plan_id>>

\* build, Join arm: both children are built; the HashJoin is put together,
\* its plan_id drawn before its keys are rebound.
JoinSecondSide(b) ==
    /\ At(b, "Join", "second_side")
    /\ ret[b] # None
    /\ IF ret[b].t # "Ok"
       THEN Return(b, ret[b]) /\ UNCHANGED next_plan_id
       ELSE LET join == Top(b).node
                build_side == IF JoinChildOrder[1] = 1 THEN Top(b).built[1]
                              ELSE ret[b].v
                probe_side == IF JoinChildOrder[1] = 1 THEN ret[b].v
                              ELSE Top(b).built[1]
                build_schema == output_schema(build_side)
                probe_schema == output_schema(probe_side)
                build_keys == build_keys_of(join, build_schema, probe_schema)
                probe_keys == probe_keys_of(join, build_schema, probe_schema)
                non_equi == non_equi_conditions_of(join, build_schema,
                                                   probe_schema)
            IN /\ DrawPlanIds(b, 1)
               /\ IF build_keys.t = "Panic" THEN Return(b, build_keys)
                  ELSE IF probe_keys.t = "Panic" THEN Return(b, probe_keys)
                  ELSE IF non_equi.t = "Panic" THEN Return(b, non_equi)
                  ELSE Return(b, Ok([plan |-> "HashJoin",
                                     plan_id |-> peek_plan_id(b),
                                     build |-> build_side,
                                     probe |-> probe_side,
                                     join_type |-> join.join_type,
                                     build_keys |-> build_keys.v,
                                     probe_keys |-> probe_keys.v,
                                     non_equi_conditions |-> non_equi.v,
                                     stat_info |-> Some(Top(b).stat_info)]))
    /\ UNCHANGED s_expr

(***************************************************************************)
(* EvalScalar, Filter, Sort, Limit, Exchange.                              *)
(***************************************************************************)
EvalScalarStart(b) ==
    /\ At(b, "EvalScalar", "start")
    /\ Call(b, [Top(b) EXCEPT !.pc = "input",
                              !.stat_info = build_plan_stat_info(Top(b).node).v],
            Top(b).node.children[1])
    /\ UNCHANGED <<s_expr, next_plan_id>>

\* What a mutant that counts the items from one does.
UnnestOffsetsFromOne(items, offset) ==
    LET at == SelectSeq([i \in 1..Len(items) |-> i],
                        LAMBDA i : items[i].scalar.t = "Unnest")
    IN [k \in 1..Len(at) |-> at[k] + offset]

\* unnest_scalars: i + offset for every item that is an Unnest, ascending.
unnest_scalars_of(items, offset) ==
    LET at == SelectSeq([i \in 1..Len(items) |-> i],
                        LAMBDA i : items[i].scalar.t = "Unnest")
    IN [k \in 1..Len(at) |-> (at[k] - 1) + offset]

\* exprs: every item's scalar (an Unnest's argument), rebound against the
\* input schema, with the item's index.
eval_exprs_of(items, input_schema) ==
    LET scalars == [i \in 1..Len(items) |->
                       IF items[i].scalar.t = "Unnest"
                       THEN items[i].scalar.argument ELSE items[i].scalar]
        es == rebind_all(scalars, input_schema)
    IN IF es.t = "Panic" THEN es
       ELSE Ok([i \in 1..Len(items) |->
                   [expr |-> es.v[i], index |-> items[i].index]])

\* build, EvalScalar arm after the child: the EvalScalar and, over it, an
\* Unnest when an item is an Unnest.
EvalScalarFinish(b) ==
    /\ At(b, "EvalScalar", "input")
    /\ ret[b] # None
    /\ IF ret[b].t # "Ok"
       THEN Return(b, ret[b]) /\ UNCHANGED next_plan_id
       ELSE LET items == Top(b).node.items
                input == ret[b].v
                input_schema == output_schema(input)
                offset == Len(input_schema)
                unnest_scalars == unnest_scalars_of(items, offset)
                exprs == eval_exprs_of(items, input_schema)
                eval_scalar_plan ==
                    [plan |-> "EvalScalar", plan_id |-> peek_plan_id(b),
                     input |-> input, exprs |-> exprs.v,
                     stat_info |-> Some(Top(b).stat_info)]
            IN IF exprs.t = "Panic"
               THEN Return(b, exprs) /\ UNCHANGED next_plan_id
               ELSE IF unnest_scalars = <<>>
               THEN Return(b, Ok(eval_scalar_plan)) /\ DrawPlanIds(b, 1)
               ELSE /\ Return(b, Ok([plan |-> "Unnest",
                                     plan_id |-> peek_plan_id(b) + 1,
                                     input |-> eval_scalar_plan,
                                     offsets |-> unnest_scalars,
                                     stat_info |-> Some(Top(b).stat_info)]))
                    /\ DrawPlanIds(b, 2)
    /\ UNCHANGED s_expr

FilterStart(b) ==
    /\ At(b, "Filter", "start")
    /\ Call(b, [Top(b) EXCEPT !.pc = "input",
                              !.stat_info = build_plan_stat_info(Top(b).node).v],
            Top(b).node.children[1])
    /\ UNCHANGED <<s_expr, next_plan_id>>

\* predicates: each rebound against the input schema, cast, folded.
filter_predicates_of(predicates, input_schema) ==
    LET es == [i \in 1..Len(predicates) |->
                  project_column_ref(predicates[i], input_schema)]
        bad == {i \in 1..Len(predicates) : es[i].t = "Panic"}
    IN IF bad # {} THEN es[CHOOSE i \in bad : \A j \in bad : i <= j]
       ELSE Ok([i \in 1..Len(predicates) |->
                   fold(cast_expr_to_non_null_boolean(es[i]))])

\* build, Filter arm after the child: plan_id, then the predicates.
FilterFinish(b) ==
    /\ At(b, "Filter", "input")
    /\ ret[b] # None
    /\ IF ret[b].t # "Ok"
       THEN Return(b, ret[b]) /\ UNCHANGED next_plan_id
       ELSE LET input == ret[b].v
                predicates == filter_predicates_of(Top(b).node.predicates,
                                                   output_schema(input))
            IN /\ DrawPlanIds(b, 1)
               /\ IF predicates.t = "Panic" THEN Return(b, predicates)
                  ELSE Return(b, Ok([plan |-> "Filter",
                                     plan_id |-> peek_plan_id(b),
                                     input |-> input,
                                     predicates |-> predicates.v,
                                     stat_info |-> Some(Top(b).stat_info)]))
    /\ UNCHANGED s_expr

\* build, Sort arm: plan_id is the first field of the struct expression, so
\* it is drawn before the child build starts.
SortStart(b) ==
    /\ At(b, "Sort", "start")
    /\ Call(b, [Top(b) EXCEPT !.pc = "input",
                              !.stat_info = build_plan_stat_info(Top(b).node).v,
                              !.held = [plan_id |-> peek_plan_id(b)]],
            Top(b).node.children[1])
    /\ DrawPlanIds(b, 1)
    /\ UNCHANGED s_expr

\* What a mutant that mixes the two flags up does.
SortFlagsSwapped(items) ==
    [i \in 1..Len(items) |->
        [asc |-> items[i].nulls_first,
         nulls_first |-> items[i].asc,
         order_by |-> items[i].index]]

\* order_by: one SortDesc per sort item, in order; order_by is v.index.
sort_order_by_of(items) ==
    [i \in 1..Len(items) |->
        [asc |-> items[i].asc,
         nulls_first |-> items[i].nulls_first,
         order_by |-> items[i].index]]

\* build, Sort arm after the child.
SortFinish(b) ==
    /\ At(b, "Sort", "input")
    /\ ret[b] # None
    /\ IF ret[b].t # "Ok" THEN Return(b, ret[b])
       ELSE LET sort == Top(b).node
            IN Return(b, Ok([plan |-> "Sort",
                             plan_id |-> Top(b).held.plan_id,
                             input |-> ret[b].v,
                             order_by |-> sort_order_by_of(sort.items),
                             limit |-> sort.limit,
                             stat_info |-> Some(Top(b).stat_info)]))
    /\ UNCHANGED <<s_expr, next_plan_id>>

\* build, Limit arm: plan_id drawn, then the child build.
LimitStart(b) ==
    /\ At(b, "Limit", "start")
    /\ Call(b, [Top(b) EXCEPT !.pc = "input",
                              !.stat_info = build_plan_stat_info(Top(b).node).v,
                              !.held = [plan_id |-> peek_plan_id(b)]],
            Top(b).node.children[1])
    /\ DrawPlanIds(b, 1)
    /\ UNCHANGED s_expr

\* build, Limit arm after the child.
LimitFinish(b) ==
    /\ At(b, "Limit", "input")
    /\ ret[b] # None
    /\ IF ret[b].t # "Ok" THEN Return(b, ret[b])
       ELSE Return(b, Ok([plan |-> "Limit",
                          plan_id |-> Top(b).held.plan_id,
                          input |-> ret[b].v,
                          limit |-> Top(b).node.limit,
                          offset |-> Top(b).node.offset,
                          stat_info |-> Some(Top(b).stat_info)]))
    /\ UNCHANGED <<s_expr, next_plan_id>>

ExchangeStart(b) ==
    /\ At(b, "Exchange", "start")
    /\ Call(b, [Top(b) EXCEPT !.pc = "input",
                              !.stat_info = build_plan_stat_info(Top(b).node).v],
            Top(b).node.children[1])
    /\ UNCHANGED <<s_expr, next_plan_id>>

\* What a mutant that makes every Exchange a Normal fragment does.
AlwaysNormalKind(exchange) == "Normal"

\* kind: the FragmentKind of a logical Exchange.
fragment_kind_of(exchange) ==
    CASE exchange.t = "Random" -> "Init"
      [] exchange.t = "Hash" -> "Normal"
      [] exchange.t = "Broadcast" -> "Expansive"
      [] exchange.t = "Merge" -> "Merge"

\* keys: the hash scalars rebound against the input schema; none otherwise.
exchange_keys_of(exchange, input_schema) ==
    IF exchange.t = "Hash" THEN rebind_all(exchange.scalars, input_schema)
    ELSE Ok(<<>>)

\* build, Exchange arm after the child.
ExchangeFinish(b) ==
    /\ At(b, "Exchange", "input")
    /\ ret[b] # None
    /\ IF ret[b].t # "Ok" THEN Return(b, ret[b])
       ELSE LET exchange == Top(b).node.exchange
                input == ret[b].v
                keys == exchange_keys_of(exchange, output_schema(input))
            IN IF keys.t = "Panic" THEN Return(b, keys)
               ELSE Return(b, Ok([plan |-> "Exchange", input |-> input,
                                  kind |-> fragment_kind_of(exchange),
                                  keys |-> keys.v]))
    /\ UNCHANGED <<s_expr, next_plan_id>>

(***************************************************************************)
(* Aggregate.                                                              *)
(***************************************************************************)
AggregateStart(b) ==
    /\ At(b, "Aggregate", "start")
    /\ Call(b, [Top(b) EXCEPT !.pc = "input",
                              !.stat_info = build_plan_stat_info(Top(b).node).v],
            Top(b).node.children[1])
    /\ UNCHANGED <<s_expr, next_plan_id>>

\* One AggregateFunctionDesc: the arguments must be column references, each
\* located in schema with index_of(..)? (an error value when absent).
agg_func_desc(v, schema) ==
    IF v.scalar.t # "AggregateFunction"
    THEN Err("Internal", "Expected aggregate function")
    ELSE LET args == v.scalar.args
             at == [i \in 1..Len(args) |->
                       IF args[i].t = "BoundColumnRef"
                       THEN index_of(schema, to_string(args[i].index))
                       ELSE Err("Internal",
                                "Aggregate function argument must be a BoundColumnRef")]
             bad == {i \in 1..Len(args) : at[i].t = "Err"}
         IN IF bad # {} THEN at[CHOOSE i \in bad : \A j \in bad : i <= j]
            ELSE Ok([sig |-> [name |-> v.scalar.func_name,
                              args |-> [i \in 1..Len(args) |-> "Int"],
                              return_type |-> "UInt64"],
                     output_column |-> v.index,
                     args |-> [i \in 1..Len(args) |-> at[i].v],
                     arg_indices |-> [i \in 1..Len(args) |-> args[i].index]])

\* agg_funcs: one desc per aggregate function, or the first error.
agg_funcs_of(aggregate_functions, schema) ==
    LET ds == [i \in 1..Len(aggregate_functions) |->
                  agg_func_desc(aggregate_functions[i], schema)]
        bad == {i \in 1..Len(aggregate_functions) : ds[i].t = "Err"}
    IN IF bad # {} THEN ds[CHOOSE i \in bad : \A j \in bad : i <= j]
       ELSE Ok([i \in 1..Len(aggregate_functions) |-> ds[i].v])

\* What a mutant that forgets the - 1 does.
FieldCountOf(aggregate_partial) == Len(output_schema(aggregate_partial))

\* group_by_key_index: aggregate_partial.output_schema()?.num_fields() - 1.
\* Every Aggregate of the model has a group item or an aggregate function,
\* so the usize subtraction does not underflow.
group_by_key_index_of(aggregate_partial) ==
    Len(output_schema(aggregate_partial)) - 1

\* AggregateMode::Partial: the AggregatePartial goes under the Exchange the
\* child build returned, if it returned one.
aggregate_partial_of(agg, input, agg_funcs, stat_info, plan_id) ==
    LET group_items == [i \in 1..Len(agg.group_items) |->
                           agg.group_items[i].index]
        partial(below) ==
            [plan |-> "AggregatePartial", plan_id |-> plan_id,
             input |-> below, agg_funcs |-> agg_funcs,
             group_by |-> group_items, stat_info |-> Some(stat_info)]
    IN IF input.plan = "Exchange"
       THEN [plan |-> "Exchange", kind |-> input.kind,
             input |-> partial(input.input),
             keys |-> <<[t |-> "ColumnRef",
                         id |-> group_by_key_index_of(partial(input.input)),
                         display_name |-> "_group_by_key"]>>]
       ELSE partial(input)

\* What a mutant that takes the schema of the input itself does.
SchemaOfFinalInput(input) == Ok(output_schema(input))

\* AggregateMode::Final: the schema before the group-by, from the partial
\* stage found as the input or under the input Exchange; an Internal error
\* for every other input.
before_group_by_schema_of(input) ==
    IF input.plan = "AggregatePartial"
    THEN Ok(output_schema(input.input))
    ELSE IF input.plan = "Exchange" /\ input.input.plan = "AggregatePartial"
    THEN Ok(output_schema(input.input.input))
    ELSE Err("Internal", "invalid input physical plan")

\* build, Aggregate arm after the child.
AggregateFinish(b) ==
    /\ At(b, "Aggregate", "input")
    /\ ret[b] # None
    /\ IF ret[b].t # "Ok"
       THEN Return(b, ret[b]) /\ UNCHANGED next_plan_id
       ELSE LET agg == Top(b).node
                input == ret[b].v
                stat_info == Top(b).stat_info
            IN CASE agg.mode = "Partial" ->
                    LET agg_funcs == agg_funcs_of(agg.aggregate_functions,
                                                  output_schema(input))
                    IN IF agg_funcs.t = "Err"
                       THEN Return(b, agg_funcs) /\ UNCHANGED next_plan_id
                       ELSE /\ Return(b, Ok(aggregate_partial_of(
                                    agg, input, agg_funcs.v, stat_info,
                                    peek_plan_id(b))))
                            /\ DrawPlanIds(b, 1)
                 [] agg.mode = "Final" ->
                    LET input_schema == before_group_by_schema_of(input)
                        agg_funcs ==
                            agg_funcs_of(agg.aggregate_functions,
                                         input_schema.v)
                    IN IF input_schema.t = "Err"
                       THEN Return(b, input_schema) /\ UNCHANGED next_plan_id
                       ELSE IF agg_funcs.t = "Err"
                       THEN Return(b, agg_funcs) /\ UNCHANGED next_plan_id
                       ELSE /\ Return(b, Ok(
                                    [plan |-> "AggregateFinal",
                                     plan_id |-> peek_plan_id(b),
                                     input |-> input,
                                     group_by |->
                                        [i \in 1..Len(agg.group_items) |->
                                            agg.group_items[i].index],
                                     agg_funcs |-> agg_funcs.v,
                                     before_group_by_schema |-> input_schema.v,
                                     stat_info |-> Some(stat_info),
                                     limit |-> agg.limit]))
                            /\ DrawPlanIds(b, 1)
                 [] agg.mode = "Initial" ->
                    /\ Return(b, Err("Internal",
                                     "Invalid aggregate mode: Initial"))
                    /\ UNCHANGED next_plan_id
    /\ UNCHANGED s_expr

(***************************************************************************)
(* UnionAll and RuntimeFilterSource.                                       *)
(***************************************************************************)
UnionAllStart(b) ==
    /\ At(b, "UnionAll", "start")
    /\ Call(b, [Top(b) EXCEPT !.pc = "left",
                              !.stat_info = build_plan_stat_info(Top(b).node).v],
            Top(b).node.children[1])
    /\ UNCHANGED <<s_expr, next_plan_id>>

\* pairs: (l.to_string(), r.to_string()) for every declared pair.
union_pairs_of(pairs) ==
    [i \in 1..Len(pairs) |-> <<to_string(pairs[i][1]), to_string(pairs[i][2])>>]

\* What a mutant that looks the right name up does.
FieldsByRightName(pairs, left_schema) ==
    LET fs == [i \in 1..Len(pairs) |-> field_with_name(left_schema, pairs[i][2])]
        bad == {i \in 1..Len(pairs) : fs[i].t = "Err"}
    IN IF bad # {} THEN fs[CHOOSE i \in bad : \A j \in bad : i <= j]
       ELSE Ok([i \in 1..Len(pairs) |-> fs[i].v])

\* fields: left_schema.field_with_name(left)? for every pair, in pair order.
union_fields_of(pairs, left_schema) ==
    LET fs == [i \in 1..Len(pairs) |-> field_with_name(left_schema, pairs[i][1])]
        bad == {i \in 1..Len(pairs) : fs[i].t = "Err"}
    IN IF bad # {} THEN fs[CHOOSE i \in bad : \A j \in bad : i <= j]
       ELSE Ok([i \in 1..Len(pairs) |-> fs[i].v])

\* build, UnionAll arm after the left child: the fields, the plan_id, then
\* the right child build.
UnionAllLeft(b) ==
    /\ At(b, "UnionAll", "left")
    /\ ret[b] # None
    /\ IF ret[b].t # "Ok"
       THEN Return(b, ret[b]) /\ UNCHANGED next_plan_id
       ELSE LET left == ret[b].v
                pairs == union_pairs_of(Top(b).node.pairs)
                fields == union_fields_of(pairs, output_schema(left))
            IN IF fields.t = "Err"
               THEN Return(b, fields) /\ UNCHANGED next_plan_id
               ELSE /\ Call(b, [Top(b) EXCEPT
                                   !.pc = "right",
                                   !.built = <<left>>,
                                   !.held = [plan_id |-> peek_plan_id(b),
                                             pairs |-> pairs,
                                             fields |-> fields.v]],
                            Top(b).node.children[2])
                    /\ DrawPlanIds(b, 1)
    /\ UNCHANGED s_expr

\* What a mutant that draws the UnionAll's id after the right child does.
UnionIdAfterRight(b) == peek_plan_id(b)

\* plan_id: self.next_plan_id(), the id drawn before the right child build.
union_plan_id_of(b) == Top(b).held.plan_id

\* build, UnionAll arm after the right child.
UnionAllRight(b) ==
    /\ At(b, "UnionAll", "right")
    /\ ret[b] # None
    /\ IF ret[b].t # "Ok" THEN Return(b, ret[b])
       ELSE Return(b, Ok([plan |-> "UnionAll",
                          plan_id |-> union_plan_id_of(b),
                          left |-> Top(b).built[1],
                          right |-> ret[b].v,
                          pairs |-> Top(b).held.pairs,
                          schema |-> Top(b).held.fields,
                          stat_info |-> Some(Top(b).stat_info)]))
    /\ UNCHANGED <<s_expr, next_plan_id>>

RuntimeFilterStart(b) ==
    /\ At(b, "RuntimeFilterSource", "start")
    /\ Call(b, [Top(b) EXCEPT !.pc = "left",
                              !.stat_info = build_plan_stat_info(Top(b).node).v],
            Top(b).node.children[1])
    /\ UNCHANGED <<s_expr, next_plan_id>>

\* build, RuntimeFilterSource arm after the left child.
RuntimeFilterLeft(b) ==
    /\ At(b, "RuntimeFilterSource", "left")
    /\ ret[b] # None
    /\ IF ret[b].t # "Ok" THEN Return(b, ret[b])
       ELSE Call(b, [Top(b) EXCEPT !.pc = "right", !.built = <<ret[b].v>>],
                 Top(b).node.children[2])
    /\ UNCHANGED <<s_expr, next_plan_id>>

\* The loop over left_runtime_filters.iter().zip(right_runtime_filters
\* .iter()): one entry per zipped pair on each side; a Panic at the first
\* expression with a column its schema lacks.
runtime_filters_of(op, left_schema, right_schema) ==
    LET l == op.left_runtime_filters
        r == op.right_runtime_filters
        n == IF Len(l) <= Len(r) THEN Len(l) ELSE Len(r)
        le == [i \in 1..n |-> project_column_ref(l[i][2], left_schema)]
        re == [i \in 1..n |-> project_column_ref(r[i][2], right_schema)]
        bad == {i \in 1..n : le[i].t = "Panic" \/ re[i].t = "Panic"}
        first == CHOOSE i \in bad : \A j \in bad : i <= j
    IN IF bad # {}
       THEN (IF le[first].t = "Panic" THEN le[first] ELSE re[first])
       ELSE Ok([left |-> [k \in {l[i][1] : i \in 1..n} |->
                            le[CHOOSE i \in 1..n : l[i][1] = k]],
                right |-> [k \in {r[i][1] : i \in 1..n} |->
                            re[CHOOSE i \in 1..n : r[i][1] = k]]])

\* build, RuntimeFilterSource arm after the right child.
RuntimeFilterRight(b) ==
    /\ At(b, "RuntimeFilterSource", "right")
    /\ ret[b] # None
    /\ IF ret[b].t # "Ok"
       THEN Return(b, ret[b]) /\ UNCHANGED next_plan_id
       ELSE LET left_side == Top(b).built[1]
                right_side == ret[b].v
                filters == runtime_filters_of(Top(b).node,
                                              output_schema(left_side),
                                              output_schema(right_side))
            IN IF filters.t = "Panic"
               THEN Return(b, filters) /\ UNCHANGED next_plan_id
               ELSE /\ Return(b, Ok([plan |-> "RuntimeFilterSource",
                                     plan_id |-> peek_plan_id(b),
                                     left_side |-> left_side,
                                     right_side |-> right_side,
                                     left_runtime_filters |-> filters.v.left,
                                     right_runtime_filters |->
                                        filters.v.right]))
                    /\ DrawPlanIds(b, 1)
    /\ UNCHANGED s_expr

(***************************************************************************)
(* The admission queue (src/query/service/src/sessions/queue_mgr.rs).      *)
(*                                                                         *)
(* Each call of QueueManager::acquire is one task that awaits one          *)
(* AcquireQueueFuture.  A poll of the future is not atomic: remove runs on *)
(* another thread, so the poll is cut at every access to shared state (the *)
(* abort flag, the semaphore, the queue map), and remove is cut between    *)
(* taking the entry, waking the waker and storing the abort flag.          *)
(***************************************************************************)
\* The calls of acquire of the model.
MaxAcquires == 3
Acquires == 1 .. MaxAcquires

\* The keys the data of an acquire can carry (QueueData::get_key).
Keys == {"q1", "q2"}

\* The permits a QueueManager is created with.
MaxPermits == 1

\* The calls of remove of the model.
MaxRemoves == 1

\* QueueManager::create: permits = 0 stands for usize::MAX >> 4, more permits
\* than the model has acquires.
create_permits(permits) ==
    IF permits = 0 THEN MaxAcquires + 1 ELSE permits

\* QueueData::remove_error_message.
remove_error_message(key) ==
    Err("AbortedQuery", IF key.t = "Some" THEN <<"killed in queue", key.v>>
                        ELSE <<"killed in queue">>)

\* An acquire that has not been called yet.
NoFuture ==
    [pc |-> "none", scheduled |-> FALSE, inner |-> "none",
     has_pending |-> FALSE, is_abort |-> FALSE, data |-> None, key |-> None,
     result |-> None, guard |-> FALSE, removed |-> FALSE]

\* AcquireQueueFuture::create, inside a task that is about to poll it.
AcquireQueueFuture(data) ==
    [pc |-> "idle", scheduled |-> TRUE, inner |-> "new",
     has_pending |-> FALSE, is_abort |-> FALSE, data |-> Some(data),
     key |-> None, result |-> None, guard |-> FALSE, removed |-> FALSE]

\* QueueManager::create and no acquire called: the state of the queue while
\* only the builder runs.
QueueAtRest ==
    /\ semaphore = [permits |-> create_permits(MaxPermits), waiters |-> <<>>]
    /\ queue = [k \in Keys |-> None]
    /\ queue_lock = "free"
    /\ futures = [a \in Acquires |-> NoFuture]
    /\ remover = [pc |-> "idle", calls |-> 0, inner |-> None]

\* What a mutant whose dropped permit never reaches the semaphore does.
PermitLeaks(sem, futs) ==
    [semaphore |-> sem, futures |-> futs]

\* tokio Semaphore, a permit comes back (OwnedSemaphorePermit dropped): it
\* goes to the first waiter of the wait list, whose task is woken, or to the
\* free permits when nobody waits.
add_permit(sem, futs) ==
    IF sem.waiters = <<>>
    THEN [semaphore |-> [sem EXCEPT !.permits = @ + 1], futures |-> futs]
    ELSE [semaphore |-> [sem EXCEPT !.waiters = Tail(@)],
          futures |-> [futs EXCEPT ![Head(sem.waiters)].inner = "granted",
                                   ![Head(sem.waiters)].scheduled = TRUE]]

\* The future of acquire a is dropped once it has completed, and its inner
\* semaphore future with it: a waiter leaves the wait list, a permit that was
\* granted but never taken goes back.
drop_inner(a, sem, futs) ==
    LET dropped == [futs EXCEPT ![a].inner = "dropped"]
    IN CASE futs[a].inner = "waiting" ->
                [semaphore |-> [sem EXCEPT
                                !.waiters = SelectSeq(@, LAMBDA w : w # a)],
                 futures |-> dropped]
         [] futs[a].inner = "granted" -> add_permit(sem, dropped)
         [] OTHER -> [semaphore |-> sem, futures |-> dropped]

\* Waker::wake on the waker of acquire a: its task is polled again, unless
\* it has finished or has dropped the future.
wake(futs, a) ==
    [futs EXCEPT ![a].scheduled = (futs[a].pc \notin {"done", "dropped"})]

\* QueueManager::acquire: the future is created and awaited.
Acquire(a, data) ==
    /\ futures[a].pc = "none"
    /\ futures' = [futures EXCEPT ![a] = AcquireQueueFuture(data)]
    /\ UNCHANGED <<semaphore, queue, queue_lock, remover>>
    /\ UNCHANGED <<builder_vars, reader>>

\* The executor polls the task of acquire a, which was woken: poll is
\* entered.
PollBegin(a) ==
    /\ futures[a].pc = "idle"
    /\ futures[a].scheduled
    /\ futures' = [futures EXCEPT ![a].pc = "is_abort",
                                  ![a].scheduled = FALSE]
    /\ UNCHANGED <<semaphore, queue, queue_lock, remover>>
    /\ UNCHANGED <<builder_vars, reader>>

\* poll: if this.is_abort.load(SeqCst) { return Ready(Err(..key.take())) }.
PollIsAbort(a) ==
    /\ futures[a].pc = "is_abort"
    /\ IF futures[a].is_abort
       THEN LET done == [futures EXCEPT
                            ![a].pc = "done",
                            ![a].key = None,
                            ![a].result = remove_error_message(futures[a].key)]
                after == drop_inner(a, semaphore, done)
            IN /\ futures' = after.futures
               /\ semaphore' = after.semaphore
       ELSE /\ futures' = [futures EXCEPT ![a].pc = "inner"]
            /\ UNCHANGED semaphore
    /\ UNCHANGED <<queue, queue_lock, remover>>
    /\ UNCHANGED <<builder_vars, reader>>

\* poll: this.inner.poll(cx), the future of Semaphore::acquire_owned.  A free
\* permit is taken at once; otherwise the future joins the wait list and is
\* ready when a returned permit has been handed to it.
PollInner(a) ==
    /\ futures[a].pc = "inner"
    /\ CASE futures[a].inner = "new" /\ semaphore.permits > 0 ->
                /\ semaphore' = [semaphore EXCEPT !.permits = @ - 1]
                /\ futures' = [futures EXCEPT ![a].inner = "acquired",
                                              ![a].pc = "Ready"]
         [] futures[a].inner = "new" /\ semaphore.permits = 0 ->
                /\ semaphore' = [semaphore EXCEPT
                                    !.waiters = Append(@, a)]
                /\ futures' = [futures EXCEPT ![a].inner = "waiting",
                                              ![a].pc = "Pending"]
         [] futures[a].inner = "granted" ->
                /\ futures' = [futures EXCEPT ![a].inner = "acquired",
                                              ![a].pc = "Ready"]
                /\ UNCHANGED semaphore
         [] OTHER ->
                /\ futures' = [futures EXCEPT ![a].pc = "Pending"]
                /\ UNCHANGED semaphore
    /\ UNCHANGED <<queue, queue_lock, remover>>
    /\ UNCHANGED <<builder_vars, reader>>

\* The value of the queue map for an acquire: Inner { data, waker, is_abort },
\* the waker and the abort flag being those of the task and the future of
\* acquire a.
Inner(data, a) == [data |-> data, waker |-> a, is_abort |-> a]

\* QueueManager::add_entity: queue.insert(key, inner) under the lock; an
\* entry already stored under the key is replaced.
add_entity(q, inner) == [q EXCEPT ![inner.data] = Some(inner)]

\* QueueManager::remove_entity and the queue.remove of QueueManager::remove:
\* the map without the entry of the key.
remove_entity(q, key) == [q EXCEPT ![key] = None]

\* poll, Poll::Ready(res) of the inner future: the entry registered under the
\* key is taken out of the queue; without a key the acquire never waited.  An
\* entry that is gone means the acquire was removed: the permit in res is
\* dropped and the abort error returned.
PollReady(a) ==
    /\ futures[a].pc = "Ready"
    /\ LET key == futures[a].key
       IN IF key.t = "Some"
          THEN /\ queue_lock = "free"
               /\ queue' = remove_entity(queue, key.v)
               /\ IF queue[key.v].t = "None"
                  THEN LET done == [futures EXCEPT
                                ![a].pc = "done",
                                ![a].key = None,
                                ![a].inner = "dropped",
                                ![a].result = remove_error_message(key)]
                           after == add_permit(semaphore, done)
                       IN /\ futures' = after.futures
                          /\ semaphore' = after.semaphore
                  ELSE /\ futures' = [futures EXCEPT
                                ![a].pc = "done",
                                ![a].key = None,
                                ![a].inner = "dropped",
                                ![a].result = Ok("AcquireQueueGuard"),
                                ![a].guard = TRUE]
                       /\ UNCHANGED semaphore
          ELSE /\ futures' = [futures EXCEPT
                                ![a].pc = "done",
                                ![a].inner = "dropped",
                                ![a].result = Ok("AcquireQueueGuard"),
                                ![a].guard = TRUE]
               /\ UNCHANGED <<semaphore, queue>>
    /\ UNCHANGED <<queue_lock, remover>>
    /\ UNCHANGED <<builder_vars, reader>>

\* poll, Poll::Pending of the inner future: the first time, the data moves
\* into a queue entry together with the waker of this poll and the abort
\* flag; later polls only return Pending.
PollPending(a) ==
    /\ futures[a].pc = "Pending"
    /\ LET data == futures[a].data
       IN IF data.t = "Some"
          THEN /\ queue_lock = "free"
               /\ queue' = add_entity(queue, Inner(data.v, a))
               /\ futures' = [futures EXCEPT ![a].pc = "idle",
                                             ![a].has_pending = TRUE,
                                             ![a].data = None,
                                             ![a].key = Some(data.v)]
          ELSE /\ futures' = [futures EXCEPT ![a].pc = "idle",
                                             ![a].has_pending = TRUE]
               /\ UNCHANGED queue
    /\ UNCHANGED <<semaphore, queue_lock, remover>>
    /\ UNCHANGED <<builder_vars, reader>>

\* The caller of acquire gives up between two polls (a timeout, a select, a
\* cancelled query): the future is dropped without having completed.  The
\* inner semaphore future is dropped with it; AcquireQueueFuture has no Drop
\* of its own, so nothing else happens.
DropFuture(a) ==
    /\ futures[a].pc = "idle"
    /\ LET after == drop_inner(a, semaphore,
                               [futures EXCEPT ![a].pc = "dropped",
                                               ![a].scheduled = FALSE,
                                               ![a].data = None,
                                               ![a].key = None])
       IN /\ futures' = after.futures
          /\ semaphore' = after.semaphore
    /\ UNCHANGED <<queue, queue_lock, remover>>
    /\ UNCHANGED <<builder_vars, reader>>

\* The owner of an AcquireQueueGuard drops it: its permit goes back to the
\* semaphore.
DropGuard(a) ==
    /\ futures[a].guard
    /\ LET after == add_permit(semaphore,
                               [futures EXCEPT ![a].guard = FALSE])
       IN /\ futures' = after.futures
          /\ semaphore' = after.semaphore
    /\ UNCHANGED <<queue, queue_lock, remover>>
    /\ UNCHANGED <<builder_vars, reader>>

\* QueueManager::remove(key), no entry under the key: false is returned.
RemoveMisses(key) ==
    /\ remover.pc = "idle"
    /\ remover.calls < MaxRemoves
    /\ queue_lock = "free"
    /\ queue[key].t = "None"
    /\ remover' = [remover EXCEPT !.calls = @ + 1]
    /\ UNCHANGED <<semaphore, queue, queue_lock, futures>>
    /\ UNCHANGED <<builder_vars, reader>>

\* QueueManager::remove(key): the lock is taken and queue.remove(&key) finds
\* an entry.
RemoveTakes(key) ==
    /\ remover.pc = "idle"
    /\ remover.calls < MaxRemoves
    /\ queue_lock = "free"
    /\ queue[key].t = "Some"
    /\ queue_lock' = "remove"
    /\ queue' = remove_entity(queue, key)
    /\ remover' = [remover EXCEPT !.pc = "wake", !.calls = @ + 1,
                                  !.inner = queue[key]]
    /\ UNCHANGED <<semaphore, futures>>
    /\ UNCHANGED <<builder_vars, reader>>

\* QueueManager::remove: inner.waker.wake().
RemoveWakes ==
    /\ remover.pc = "wake"
    /\ futures' = wake(futures, remover.inner.v.waker)
    /\ remover' = [remover EXCEPT !.pc = "store"]
    /\ UNCHANGED <<semaphore, queue, queue_lock>>
    /\ UNCHANGED <<builder_vars, reader>>

\* inner.is_abort.store(true, SeqCst), on the flag of acquire a; removed
\* records that remove returned true for an entry of a.
store_is_abort(futs, a) ==
    [futs EXCEPT ![a].is_abort = TRUE, ![a].removed = TRUE]

\* QueueManager::remove: inner.is_abort.store(true), return true; the lock is
\* released on return.
RemoveStores ==
    /\ remover.pc = "store"
    /\ futures' = store_is_abort(futures, remover.inner.v.is_abort)
    /\ remover' = [remover EXCEPT !.pc = "idle", !.inner = None]
    /\ queue_lock' = "free"
    /\ UNCHANGED <<semaphore, queue>>
    /\ UNCHANGED <<builder_vars, reader>>

\* The steps of the admission queue.
NextQueue ==
    \/ \E a \in Acquires, data \in Keys : Acquire(a, data)
    \/ \E a \in Acquires : PollBegin(a)
    \/ \E a \in Acquires : PollIsAbort(a)
    \/ \E a \in Acquires : PollInner(a)
    \/ \E a \in Acquires : PollReady(a)
    \/ \E a \in Acquires : PollPending(a)
    \/ \E a \in Acquires : DropFuture(a)
    \/ \E a \in Acquires : DropGuard(a)
    \/ \E key \in Keys : RemoveMisses(key)
    \/ \E key \in Keys : RemoveTakes(key)
    \/ RemoveWakes
    \/ RemoveStores

(***************************************************************************)
(* The result cache reader                                                 *)
(* (src/query/storages/result_cache/src/read/reader.rs).                   *)
(*                                                                         *)
(* One call of try_read_cached_result on one reader.  The answers of the   *)
(* meta store and of the object storage are inputs fixed when the reader   *)
(* is created; the two awaits of the call are its two steps.               *)
(***************************************************************************)
\* The values ctx.get_partitions_sha() and a stored partitions_sha take.
Shas == {"sha1", "sha2"}

\* The locations a cache meta entry can point to.
Locations == {"loc1", "loc2"}

\* Largest num_rows of a cache meta entry.
MaxRows == 2

\* The ResultCacheValue entries the meta store can hold for the query key:
\* the fields try_read_cached_result reads.
ResultCacheValues ==
    [partitions_sha : Shas, num_rows : 0 .. MaxRows, location : Locations]

\* What self.meta_mgr.get().await answers: a failure, no entry, an entry.
MetaAnswers ==
    {Err("MetaStoreError", "get")} \cup {Ok(None)}
        \cup {Ok(Some(value)) : value \in ResultCacheValues}

\* What object.read().await answers for a location: a failure, bytes that do
\* not decode, or the bytes of a result set.
ReadAnswers ==
    {Err("StorageOther", "read"),
     Ok([decodes |-> FALSE, blocks |-> <<>>]),
     Ok([decodes |-> TRUE, blocks |-> <<"block1">>]),
     Ok([decodes |-> TRUE, blocks |-> <<"block1", "block2">>])}

\* DataBlock::empty().
EmptyBlock == "empty"

\* read_blocks_from_buffer: the blocks of the buffer, or a decoding error.
read_blocks_from_buffer(data) ==
    IF data.decodes THEN Ok(data.blocks) ELSE Err("BadBytes", "decode")

\* No reader at work: the state of the reader while the builder or the queue
\* runs.
ReaderAtRest ==
    reader = [pc |-> "none", partitions_sha |-> "sha1", meta |-> Ok(None),
              storage |-> [l \in Locations |-> Err("StorageOther", "read")],
              location |-> None, reads |-> 0, result |-> None]

\* ResultCacheReader::create, and the answers its call will get.
ResultCacheReader(sha, meta, storage) ==
    [pc |-> "start", partitions_sha |-> sha, meta |-> meta,
     storage |-> storage, location |-> None, reads |-> 0, result |-> None]

\* What a mutant that takes any stored entry for valid does.
AnyShaIsValid(value, sha) == TRUE

\* value.partitions_sha == self.partitions_sha.
sha_is_current(value, sha) == value.partitions_sha = sha

\* try_read_cached_result up to the await of self.meta_mgr.get().
TryReadCachedResult ==
    /\ reader.pc = "start"
    /\ reader' = [reader EXCEPT !.pc = "meta_mgr.get"]
    /\ UNCHANGED <<builder_vars, queue_vars>>

\* try_read_cached_result, from the answer of the meta store to its return
\* or to the await of read_result_from_cache.
MetaGetReturns ==
    /\ reader.pc = "meta_mgr.get"
    /\ LET got == reader.meta
       IN IF got.t = "Err"
          THEN reader' = [reader EXCEPT !.pc = "done", !.result = got]
          ELSE IF got.v.t = "None"
          THEN reader' = [reader EXCEPT !.pc = "done", !.result = Ok(None)]
          ELSE IF ~sha_is_current(got.v.v, reader.partitions_sha)
          THEN reader' = [reader EXCEPT !.pc = "done", !.result = Ok(None)]
          ELSE IF got.v.v.num_rows = 0
          THEN reader' = [reader EXCEPT
                            !.pc = "done",
                            !.result = Ok(Some(<<EmptyBlock>>))]
          ELSE reader' = [reader EXCEPT
                            !.pc = "object.read",
                            !.location = Some(got.v.v.location)]
    /\ UNCHANGED <<builder_vars, queue_vars>>

\* read_result_from_cache, from the answer of object.read() on: the bytes
\* are decoded and the outcome goes back through try_read_cached_result.
ObjectReadReturns ==
    /\ reader.pc = "object.read"
    /\ LET data == reader.storage[reader.location.v]
           blocks == IF data.t = "Err" THEN data
                     ELSE read_blocks_from_buffer(data.v)
       IN reader' = [reader EXCEPT
                        !.pc = "done",
                        !.reads = @ + 1,
                        !.result = IF blocks.t = "Err" THEN blocks
                                   ELSE Ok(Some(blocks.v))]
    /\ UNCHANGED <<builder_vars, queue_vars>>

\* The steps of one call of try_read_cached_result.
NextReader ==
    \/ TryReadCachedResult
    \/ MetaGetReturns
    \/ ObjectReadReturns

(***************************************************************************)
(* Specifications.                                                         *)
(***************************************************************************)
\* One build pass, by builder b1 on a fresh PhysicalPlanBuilder::new.
Init ==
    /\ s_expr \in InputTrees
    /\ next_plan_id = [b \in Builders |-> 0]
    /\ stack = [b \in Builders |-> IF b = "b1" THEN <<Frame(s_expr)>> ELSE <<>>]
    /\ ret = [b \in Builders |-> None]
    /\ QueueAtRest
    /\ ReaderAtRest

\* Two build passes over the same tree, each on its own fresh builder.
InitPair ==
    /\ s_expr \in PairTrees
    /\ next_plan_id = [b \in Builders |-> 0]
    /\ stack = [b \in Builders |-> <<Frame(s_expr)>>]
    /\ ret = [b \in Builders |-> None]
    /\ QueueAtRest
    /\ ReaderAtRest

Next ==
    \E b \in Builders :
        \/ ScanStart(b)
        \/ ScanReadPlan(b)
        \/ DummyStart(b)
        \/ DummyGetTable(b)
        \/ DummyReadPlan(b)
        \/ Unsupported(b)
        \/ BuildStatInfoFails(b)
        \/ JoinStart(b)
        \/ JoinFirstSide(b)
        \/ JoinSecondSide(b)
        \/ EvalScalarStart(b)
        \/ EvalScalarFinish(b)
        \/ FilterStart(b)
        \/ FilterFinish(b)
        \/ SortStart(b)
        \/ SortFinish(b)
        \/ LimitStart(b)
        \/ LimitFinish(b)
        \/ ExchangeStart(b)
        \/ ExchangeFinish(b)
        \/ AggregateStart(b)
        \/ AggregateFinish(b)
        \/ UnionAllStart(b)
        \/ UnionAllLeft(b)
        \/ UnionAllRight(b)
        \/ RuntimeFilterStart(b)
        \/ RuntimeFilterLeft(b)
        \/ RuntimeFilterRight(b)

Spec == Init /\ [][Next]_vars

SpecPair == InitPair /\ [][Next]_vars

\* The admission queue alone: a QueueManager fresh from create, no build pass
\* running.
InitQueue ==
    /\ s_expr = DummyTableScan("Ok", "Ok")
    /\ next_plan_id = [b \in Builders |-> 0]
    /\ stack = [b \in Builders |-> <<>>]
    /\ ret = [b \in Builders |-> None]
    /\ QueueAtRest
    /\ ReaderAtRest

\* The executor polls every woken task and a poll runs to its return; the
\* thread inside remove runs to its return.  Nothing obliges a caller to
\* acquire, to remove or to drop a guard.
QueueFairness ==
    /\ \A a \in Acquires :
            WF_vars(PollBegin(a) \/ PollIsAbort(a) \/ PollInner(a)
                        \/ PollReady(a) \/ PollPending(a))
    /\ WF_vars(RemoveWakes \/ RemoveStores)

SpecQueue == InitQueue /\ [][NextQueue]_vars /\ QueueFairness

\* The result cache reader alone: a reader fresh from create, for every
\* current sha and every answer of the meta store and of the storage.
InitReader ==
    /\ s_expr = DummyTableScan("Ok", "Ok")
    /\ next_plan_id = [b \in Builders |-> 0]
    /\ stack = [b \in Builders |-> <<>>]
    /\ ret = [b \in Builders |-> None]
    /\ QueueAtRest
    /\ \E sha \in Shas, meta \in MetaAnswers,
          storage \in [Locations -> ReadAnswers] :
            reader = ResultCacheReader(sha, meta, storage)

SpecReader == InitReader /\ [][NextReader]_vars

\* Builder b's pass has ended: no activation is left and a value came back.
Done(b) == stack[b] = <<>> /\ ret[b] # None

(***************************************************************************)
(* Properties.  Helpers first.                                             *)
(***************************************************************************)
\* Every plan of the physical tree p, p included.
RECURSIVE SubPlans(_)
SubPlans(p) ==
    {p} \cup UNION {SubPlans(plan_children(p)[i]) :
                        i \in 1..Len(plan_children(p))}

\* The plan ids of the physical tree p, one entry per id-bearing plan.
RECURSIVE PlanIdSeq(_)
PlanIdSeq(p) ==
    LET own == IF p.plan = "Exchange" THEN <<>> ELSE <<p.plan_id>>
        cs == plan_children(p)
    IN IF cs = <<>> THEN own
       ELSE IF Len(cs) = 1 THEN own \o PlanIdSeq(cs[1])
       ELSE own \o PlanIdSeq(cs[1]) \o PlanIdSeq(cs[2])

PlanIds(p) == Range(PlanIdSeq(p))

\* Builder b takes the step that ends the wait of its innermost activation,
\* in the handler of op at pc, for a child that was built.
ChildBuilt(b, op, pc) ==
    /\ At(b, op, pc)
    /\ ret[b].t = "Ok"
    /\ stack'[b] # stack[b]

\* Every aggregate function of agg takes column references found in schema.
ArgsResolve(agg, schema) ==
    \A i \in 1..Len(agg.aggregate_functions) :
        LET f == agg.aggregate_functions[i].scalar
        IN /\ f.t = "AggregateFunction"
           /\ \A j \in 1..Len(f.args) :
                /\ f.args[j].t = "BoundColumnRef"
                /\ \E k \in 1..Len(schema) :
                        schema[k].name = to_string(f.args[j].index)

\* Position, counted from 0, of the first field of schema called name.
PositionOf(schema, name) ==
    (CHOOSE k \in 1..Len(schema) :
        /\ schema[k].name = name
        /\ \A m \in 1..(k - 1) : schema[m].name # name) - 1

\* C1: a Partial Aggregate whose built child is an Exchange comes back as an
\* Exchange of the child's fragment kind over an AggregatePartial over the
\* child's input, keyed by the single column reference to the last field of
\* the AggregatePartial's output (the child's keys are gone); over any
\* other child it comes back as a bare AggregatePartial over that child.
C1_PartialStaging ==
    [][\A b \in Builders :
        (/\ ChildBuilt(b, "Aggregate", "input")
         /\ Top(b).node.mode = "Partial"
         /\ ArgsResolve(Top(b).node, output_schema(ret[b].v)))
        => LET child == ret[b].v
               r == ret'[b]
           IN /\ r.t = "Ok"
              /\ IF child.plan = "Exchange"
                 THEN /\ r.v.plan = "Exchange"
                      /\ r.v.kind = child.kind
                      /\ r.v.input.plan = "AggregatePartial"
                      /\ r.v.input.input = child.input
                      /\ r.v.input.plan_id = next_plan_id[b]
                      /\ Len(r.v.keys) = 1
                      /\ r.v.keys[1].t = "ColumnRef"
                      /\ r.v.keys[1].id = Len(output_schema(r.v.input)) - 1
                 ELSE /\ r.v.plan = "AggregatePartial"
                      /\ r.v.input = child]_vars

\* C1 witness: a pass ended with the Exchange put over the partial stage,
\* keyed by field 1 of the two-field partial output.
C1_Witness ==
    /\ Done("b1")
    /\ s_expr.op = "Aggregate"
    /\ s_expr.mode = "Partial"
    /\ s_expr.children[1].op = "Exchange"
    /\ ret["b1"].t = "Ok"
    /\ ret["b1"].v.plan = "Exchange"
    /\ ret["b1"].v.kind = "Normal"
    /\ ret["b1"].v.input.plan = "AggregatePartial"
    /\ ret["b1"].v.keys = <<[t |-> "ColumnRef", id |-> 1,
                            display_name |-> "_group_by_key"]>>

\* C2: a Final Aggregate over an AggregatePartial, or over an Exchange
\* directly over one, comes back as an AggregateFinal over that child whose
\* before_group_by_schema is the output schema of the partial stage's input
\* and whose argument positions are positions in that schema; over every
\* other child it comes back as an Internal error, no plan and no id drawn.
C2_FinalStaging ==
    [][\A b \in Builders :
        (ChildBuilt(b, "Aggregate", "input") /\ Top(b).node.mode = "Final")
        => LET agg == Top(b).node
               child == ret[b].v
               r == ret'[b]
           IN IF \/ child.plan = "AggregatePartial"
                 \/ /\ child.plan = "Exchange"
                    /\ child.input.plan = "AggregatePartial"
              THEN LET partial == IF child.plan = "AggregatePartial"
                                  THEN child ELSE child.input
                       before == output_schema(partial.input)
                   IN ArgsResolve(agg, before)
                      => /\ r.t = "Ok"
                         /\ r.v.plan = "AggregateFinal"
                         /\ r.v.input = child
                         /\ r.v.before_group_by_schema = before
                         /\ \A i \in 1..Len(agg.aggregate_functions) :
                              \A j \in 1..Len(agg.aggregate_functions[i].scalar.args) :
                                r.v.agg_funcs[i].args[j] =
                                    PositionOf(before, to_string(
                                        agg.aggregate_functions[i].scalar.args[j].index))
              ELSE /\ r.t = "Err"
                   /\ r.code = "Internal"
                   /\ next_plan_id' = next_plan_id]_vars

\* C2 witness: a Final stage built over an Exchange over the partial stage,
\* its argument at position 0 of the schema before the group-by although the
\* partial stage's output has no such field.
C2_Witness ==
    /\ Done("b1")
    /\ ret["b1"].t = "Ok"
    /\ ret["b1"].v.plan = "AggregateFinal"
    /\ ret["b1"].v.input.plan = "Exchange"
    /\ ret["b1"].v.agg_funcs[1].args = <<0>>
    /\ \A k \in 1..Len(output_schema(ret["b1"].v.input)) :
            output_schema(ret["b1"].v.input)[k].name # "0"

\* C3: in every HashJoin handed back, every plan id of the build side is
\* smaller than every plan id of the probe side, and all of them are
\* smaller than the HashJoin's own.
C3_JoinBuildsBuildSideFirst ==
    \A b \in Builders :
        ret[b].t = "Ok"
        => \A h \in SubPlans(ret[b].v) :
            h.plan = "HashJoin"
            => /\ \A i \in PlanIds(h.build) : \A j \in PlanIds(h.probe) : i < j
               /\ \A i \in PlanIds(h.build) \cup PlanIds(h.probe) :
                    i < h.plan_id

\* C3 witness: a HashJoin whose build side holds two plan ids.
C3_Witness ==
    /\ Done("b1")
    /\ ret["b1"].t = "Ok"
    /\ ret["b1"].v.plan = "HashJoin"
    /\ Cardinality(PlanIds(ret["b1"].v.build)) = 2
    /\ PlanIds(ret["b1"].v.probe) # {}

\* C4: when a pass has succeeded, the plan ids of the id-bearing plans of
\* the tree handed back (every plan but Exchange) are pairwise distinct and
\* are exactly 0..n-1 for n such plans, the counter standing at n; and no
\* step ever lowers a builder's counter.
C4_PlanIdsDense ==
    /\ [](\A b \in Builders :
            (Done(b) /\ ret[b].t = "Ok")
            => LET ids == PlanIdSeq(ret[b].v)
                   n == Len(ids)
               IN /\ \A i, j \in 1..n : i # j => ids[i] # ids[j]
                  /\ Range(ids) = 0..(n - 1)
                  /\ n = Cardinality({p \in SubPlans(ret[b].v) :
                                            p.plan # "Exchange"})
                  /\ next_plan_id[b] = n)
    /\ [][\A b \in Builders : next_plan_id'[b] >= next_plan_id[b]]_vars

\* C4 witness: a pass succeeded with three id-bearing plans and an Exchange.
C4_Witness ==
    /\ Done("b1")
    /\ ret["b1"].t = "Ok"
    /\ Len(PlanIdSeq(ret["b1"].v)) = 3
    /\ next_plan_id["b1"] = 3
    /\ \E p \in SubPlans(ret["b1"].v) : p.plan = "Exchange"

\* C5: two passes over the same tree, each on its own builder, hand back the
\* same result with the same plan id on corresponding plans, however their
\* steps interleave.
C5_PlanIdsDeterministic ==
    (Done("b1") /\ Done("b2"))
    => /\ ret["b1"] = ret["b2"]
       /\ ret["b1"].t = "Ok"
          => PlanIdSeq(ret["b1"].v) = PlanIdSeq(ret["b2"].v)

\* C5 witness: both passes ended with a tree of three id-bearing plans.
C5_Witness ==
    /\ Done("b1")
    /\ Done("b2")
    /\ ret["b1"].t = "Ok"
    /\ ret["b2"].t = "Ok"
    /\ Len(PlanIdSeq(ret["b1"].v)) = 3
    /\ Len(PlanIdSeq(ret["b2"].v)) = 3

\* Position, counted from 0, of the field called name in the fields of
\* probe_schema followed by the fields of build_schema.
PositionProbeThenBuild(probe_schema, build_schema, name) ==
    IF \E k \in 1..Len(probe_schema) : probe_schema[k].name = name
    THEN PositionOf(probe_schema, name)
    ELSE Len(probe_schema) + PositionOf(build_schema, name)

\* C6: when a Join hands back its HashJoin, the merged schema is the probe
\* side's output fields followed by the build side's, none dropped, doubled
\* or moved, and every non-equi condition is the position of its column in
\* that sequence.
C6_MergedSchemaProbeThenBuild ==
    [][\A b \in Builders :
        (ChildBuilt(b, "Join", "second_side") /\ ret'[b].t = "Ok")
        => LET join == Top(b).node
               h == ret'[b].v
               ps == output_schema(h.probe)
               bs == output_schema(h.build)
               ms == merged_schema_of(ps, bs)
           IN /\ h.plan = "HashJoin"
              /\ Len(ms) = Len(ps) + Len(bs)
              /\ \A k \in 1..Len(ps) : ms[k] = ps[k]
              /\ \A k \in 1..Len(bs) : ms[Len(ps) + k] = bs[k]
              /\ Len(h.non_equi_conditions) = Len(join.non_equi_conditions)
              /\ \A i \in 1..Len(join.non_equi_conditions) :
                    h.non_equi_conditions[i] =
                        ColumnRef(PositionProbeThenBuild(ps, bs,
                            to_string(join.non_equi_conditions[i].index)))]_vars

\* C6 witness: a HashJoin over a probe side that is itself a plan with a
\* child, two probe fields and one build field, whose non-equi condition on
\* the build field sits at position 2.
C6_Witness ==
    /\ Done("b1")
    /\ ret["b1"].t = "Ok"
    /\ ret["b1"].v.plan = "HashJoin"
    /\ ret["b1"].v.probe.plan # "TableScan"
    /\ Len(output_schema(ret["b1"].v.probe)) = 2
    /\ Len(output_schema(ret["b1"].v.build)) = 1
    /\ ret["b1"].v.non_equi_conditions = <<ColumnRef(2)>>

\* C7: when a Join hands back its HashJoin, the i-th probe key is the i-th
\* left condition as a position in the probe side's schema and the i-th
\* build key is the i-th right condition as a position in the build side's
\* schema.
C7_KeysInOwnSchema ==
    [][\A b \in Builders :
        (ChildBuilt(b, "Join", "second_side") /\ ret'[b].t = "Ok")
        => LET join == Top(b).node
               h == ret'[b].v
               ps == output_schema(h.probe)
               bs == output_schema(h.build)
           IN /\ Len(h.probe_keys) = Len(join.left_conditions)
              /\ Len(h.build_keys) = Len(join.right_conditions)
              /\ \A i \in 1..Len(join.left_conditions) :
                    h.probe_keys[i] =
                        ColumnRef(PositionOf(ps,
                            to_string(join.left_conditions[i].index)))
              /\ \A i \in 1..Len(join.right_conditions) :
                    h.build_keys[i] =
                        ColumnRef(PositionOf(bs,
                            to_string(join.right_conditions[i].index)))]_vars

\* C7 witness: probe schema (name, uid), build schema (id), the condition
\* uid = id: the probe key is position 1, the build key position 0.
C7_Witness ==
    /\ Done("b1")
    /\ s_expr.op = "Join"
    /\ s_expr.left_conditions = <<BoundColumnRef(1)>>
    /\ s_expr.right_conditions = <<BoundColumnRef(4)>>
    /\ ret["b1"].t = "Ok"
    /\ ret["b1"].v.plan = "HashJoin"
    /\ output_schema(ret["b1"].v.probe) =
            <<DataField("0", "Text"), DataField("1", "Int")>>
    /\ output_schema(ret["b1"].v.build) = <<DataField("4", "Int")>>
    /\ ret["b1"].v.probe_keys = <<ColumnRef(1)>>
    /\ ret["b1"].v.build_keys = <<ColumnRef(0)>>

\* The fields a projection references: a flat one the top-level positions it
\* lists, a nested one the paths it maps its columns to.
FieldsOf(projection) ==
    IF projection.t = "Columns"
    THEN {<<projection.v[i]>> : i \in 1..Len(projection.v)}
    ELSE {projection.v[index] : index \in DOMAIN projection.v}

\* The field of table table_index behind the logical column index: its path
\* when it is a nested column, its position in the table's schema otherwise.
FieldOfColumn(table_index, index) ==
    IF /\ column(index).entry = "BaseTableColumn"
       /\ column(index).path_indices.t = "Some"
    THEN column(index).path_indices.v
    ELSE <<PositionOf(table_schema(table_index), column_name_of(index))>>

\* C8: in the push-down bundle of a Scan with a prewhere split, the
\* prewhere-columns projection and the remaining-columns projection share
\* no field, and together they hold the field of every required column.
C8_PrewhereRemainPartition ==
    \A b \in Builders :
        (At(b, "Scan", "read_plan") /\ Top(b).node.prewhere.t = "Some")
        => LET scan == Top(b).node
               info == Top(b).held.push_downs.prewhere
           IN /\ info.t = "Some"
              /\ FieldsOf(info.v.prewhere_columns)
                    \cap FieldsOf(info.v.remain_columns) = {}
              /\ \A index \in scan.columns :
                    FieldOfColumn(scan.table_index, index)
                        \in FieldsOf(info.v.prewhere_columns)
                            \cup FieldsOf(info.v.remain_columns)

\* C8 witness: a bundle for three required columns, one of them nested,
\* with fields on both sides of the split.
C8_Witness ==
    /\ At("b1", "Scan", "read_plan")
    /\ Top("b1").node.prewhere.t = "Some"
    /\ Top("b1").node.columns = {0, 2, 3}
    /\ FieldsOf(Top("b1").held.push_downs.prewhere.v.prewhere_columns)
            = {<<2, 0>>}
    /\ FieldsOf(Top("b1").held.push_downs.prewhere.v.remain_columns)
            = {<<1>>, <<2>>}

\* The projections of a push-down bundle with the column set each was built
\* from: the main one and, under a prewhere split, its three.
BundleProjections(scan, bundle) ==
    {<<bundle.projection.v, scan.columns>>}
    \cup
    IF bundle.prewhere.t = "None" THEN {}
    ELSE {<<bundle.prewhere.v.output_columns, scan.prewhere.v.output_columns>>,
          <<bundle.prewhere.v.prewhere_columns,
            scan.prewhere.v.prewhere_columns>>,
          <<bundle.prewhere.v.remain_columns,
            scan.columns \ scan.prewhere.v.prewhere_columns>>}

\* C9: in the push-down bundle of a Scan none of whose required columns has
\* path indices, every projection is flat and lists the positions of its
\* columns in the table's schema, each once, in ascending order, whatever
\* order the columns were iterated in; when a required column has path
\* indices, every projection is nested and keyed by its columns' indices.
C9_ProjectionFormChosenOnce ==
    \A b \in Builders :
        At(b, "Scan", "read_plan")
        => LET scan == Top(b).node
               bundle == Top(b).held.push_downs
               nested == \E index \in scan.columns :
                            /\ column(index).entry = "BaseTableColumn"
                            /\ column(index).path_indices.t = "Some"
           IN /\ bundle.projection.t = "Some"
              /\ (scan.prewhere.t = "Some") <=> (bundle.prewhere.t = "Some")
              /\ \A pc \in BundleProjections(scan, bundle) :
                    IF nested
                    THEN /\ pc[1].t = "InnerColumns"
                         /\ DOMAIN pc[1].v = pc[2]
                    ELSE /\ pc[1].t = "Columns"
                         /\ Len(pc[1].v) = Cardinality(pc[2])
                         /\ \A i, j \in 1..Len(pc[1].v) :
                                i < j => pc[1].v[i] < pc[1].v[j]
                         /\ Range(pc[1].v) =
                                {PositionOf(table_schema(scan.table_index),
                                            column_name_of(index)) :
                                    index \in pc[2]}

\* C9 witness: the flat bundle for the columns name, uid and addr, declared
\* in that order and stored as uid, name, addr, with a prewhere split.
C9_Witness ==
    /\ At("b1", "Scan", "read_plan")
    /\ Top("b1").node.columns = {0, 1, 2}
    /\ Top("b1").node.prewhere.t = "Some"
    /\ Top("b1").node.prewhere.v.prewhere_columns = {0, 1}
    /\ Top("b1").held.push_downs.projection.v =
            [t |-> "Columns", v |-> <<0, 1, 2>>]
    /\ Top("b1").held.push_downs.prewhere.v.prewhere_columns =
            [t |-> "Columns", v |-> <<0, 1>>]
    /\ Top("b1").held.push_downs.prewhere.v.remain_columns =
            [t |-> "Columns", v |-> <<2>>]

\* Every declared left name of the UnionAll node is a field of schema.
LeftNamesFound(union, schema) ==
    \A i \in 1..Len(union.pairs) :
        \E k \in 1..Len(schema) :
            schema[k].name = to_string(union.pairs[i][1])

\* C10: every UnionAll handed back has one schema field per pair, in pair
\* order, each the left child's field of the pair's left name; the pairs are
\* the declared ones; and a UnionAll whose left child lacks a declared left
\* name ends in an error after the left child, no id drawn, no right child
\* built, while one whose left child has them all goes on.
C10_UnionAllSchemaFromLeft ==
    /\ [](\A b \in Builders :
            ret[b].t = "Ok"
            => \A u \in SubPlans(ret[b].v) :
                u.plan = "UnionAll"
                => LET ls == output_schema(u.left)
                   IN /\ Len(u.schema) = Len(u.pairs)
                      /\ \A i \in 1..Len(u.pairs) :
                            /\ \E k \in 1..Len(ls) : ls[k].name = u.pairs[i][1]
                            /\ u.schema[i] =
                                ls[PositionOf(ls, u.pairs[i][1]) + 1])
    /\ [][\A b \in Builders :
            ChildBuilt(b, "UnionAll", "left")
            => IF LeftNamesFound(Top(b).node, output_schema(ret[b].v))
               THEN /\ ret'[b] = None
                    /\ Len(stack'[b]) = Len(stack[b]) + 1
               ELSE /\ ret'[b].t = "Err"
                    /\ Len(stack'[b]) = Len(stack[b]) - 1
                    /\ next_plan_id' = next_plan_id]_vars
    /\ [][\A b \in Builders :
            (ChildBuilt(b, "UnionAll", "right") /\ ret'[b].t = "Ok")
            => /\ ret'[b].v.plan = "UnionAll"
               /\ Len(ret'[b].v.pairs) = Len(Top(b).node.pairs)
               /\ \A i \in 1..Len(Top(b).node.pairs) :
                    ret'[b].v.pairs[i] =
                        <<to_string(Top(b).node.pairs[i][1]),
                          to_string(Top(b).node.pairs[i][2])>>]_vars

\* C10 witness: a UnionAll over the left schema (0: Text, 1: Int) with the
\* pairs (1, 4) and (0, 4): its schema is (1: Int, 0: Text), and the right
\* names are no fields of the left child.
C10_Witness ==
    /\ Done("b1")
    /\ ret["b1"].t = "Ok"
    /\ ret["b1"].v.plan = "UnionAll"
    /\ ret["b1"].v.pairs = << <<"1", "4">>, <<"0", "4">> >>
    /\ output_schema(ret["b1"].v.left) =
            <<DataField("0", "Text"), DataField("1", "Int")>>
    /\ ret["b1"].v.schema = <<DataField("1", "Int"), DataField("0", "Text")>>

\* C11: an EvalScalar over a built child comes back as an Unnest over the
\* physical EvalScalar exactly when an item is an Unnest; the offsets are
\* then the input's field count plus the (zero-based) place of each such
\* item, ascending, the Unnest's plan id is the EvalScalar's plus one, and
\* the EvalScalar has one expression per item, an Unnest item giving its
\* argument.  Without such an item the bare EvalScalar comes back and one
\* plan id is drawn.
C11_UnnestWrapsEvalScalar ==
    [][\A b \in Builders :
        (ChildBuilt(b, "EvalScalar", "input") /\ ret'[b].t = "Ok")
        => LET items == Top(b).node.items
               child == ret[b].v
               schema == output_schema(child)
               r == ret'[b].v
               unnest == {i \in 1..Len(items) : items[i].scalar.t = "Unnest"}
               eval == IF unnest = {} THEN r ELSE r.input
               inner(i) == IF i \in unnest THEN items[i].scalar.argument
                           ELSE items[i].scalar
           IN /\ (r.plan = "Unnest") <=> (unnest # {})
              /\ eval.plan = "EvalScalar"
              /\ eval.input = child
              /\ eval.plan_id = next_plan_id[b]
              /\ Len(eval.exprs) = Len(items)
              /\ \A i \in 1..Len(items) :
                    /\ eval.exprs[i].index = items[i].index
                    /\ eval.exprs[i].expr =
                        ColumnRef(PositionOf(schema, to_string(inner(i).index)))
              /\ IF unnest = {}
                 THEN next_plan_id'[b] = next_plan_id[b] + 1
                 ELSE /\ r.plan_id = eval.plan_id + 1
                      /\ next_plan_id'[b] = next_plan_id[b] + 2
                      /\ Range(r.offsets) =
                            {Len(schema) + (i - 1) : i \in unnest}
                      /\ Len(r.offsets) = Cardinality(unnest)
                      /\ \A i, j \in 1..Len(r.offsets) :
                            i < j => r.offsets[i] < r.offsets[j]]_vars

\* C11 witness: three items over a two-field input, the second and third
\* of them Unnest: the offsets are 3 and 4 and the two plans hold ids 1, 2.
C11_Witness ==
    /\ Done("b1")
    /\ s_expr.op = "EvalScalar"
    /\ Len(s_expr.items) = 3
    /\ ret["b1"].t = "Ok"
    /\ ret["b1"].v.plan = "Unnest"
    /\ Len(output_schema(ret["b1"].v.input.input)) = 2
    /\ ret["b1"].v.offsets = <<3, 4>>
    /\ ret["b1"].v.input.plan_id = 1
    /\ ret["b1"].v.plan_id = 2
    /\ Len(ret["b1"].v.input.exprs) = 3

\* C12: an Exchange over a built child comes back with the fragment kind of
\* its logical kind alone (Random: Init, Hash: Normal, Broadcast: Expansive,
\* Merge: Merge) and with one key per hash expression, in order, each the
\* expression's position in the input's schema, or with no key when the
\* kind is not Hash.
C12_ExchangeKinds ==
    [][\A b \in Builders :
        (ChildBuilt(b, "Exchange", "input") /\ ret'[b].t = "Ok")
        => LET exchange == Top(b).node.exchange
               schema == output_schema(ret[b].v)
               r == ret'[b].v
           IN /\ r.plan = "Exchange"
              /\ r.input = ret[b].v
              /\ exchange.t = "Random" => r.kind = "Init"
              /\ exchange.t = "Hash" => r.kind = "Normal"
              /\ exchange.t = "Broadcast" => r.kind = "Expansive"
              /\ exchange.t = "Merge" => r.kind = "Merge"
              /\ exchange.t \in {"Random", "Hash", "Broadcast", "Merge"}
              /\ IF exchange.t = "Hash"
                 THEN /\ Len(r.keys) = Len(exchange.scalars)
                      /\ \A i \in 1..Len(exchange.scalars) :
                            r.keys[i] = ColumnRef(PositionOf(schema,
                                to_string(exchange.scalars[i].index)))
                 ELSE r.keys = <<>>
              /\ next_plan_id' = next_plan_id]_vars

\* C12 witness: a Broadcast Exchange over a plan with fields came back
\* Expansive and without keys.
C12_Witness ==
    /\ Done("b1")
    /\ s_expr.op = "Exchange"
    /\ s_expr.exchange.t = "Broadcast"
    /\ ret["b1"].t = "Ok"
    /\ ret["b1"].v.plan = "Exchange"
    /\ ret["b1"].v.kind = "Expansive"
    /\ ret["b1"].v.keys = <<>>
    /\ Len(output_schema(ret["b1"].v.input)) = 2

\* C13 as claimed: each sort key of a built Sort is the position, in the
\* input's output schema, of the field of the column sorted by.
C13_SortKeysArePositions ==
    [][\A b \in Builders :
        (ChildBuilt(b, "Sort", "input") /\ ret'[b].t = "Ok")
        => LET items == Top(b).node.items
               schema == output_schema(ret[b].v)
           IN \A i \in 1..Len(items) :
                (\E k \in 1..Len(schema) :
                    schema[k].name = to_string(items[i].index))
                => ret'[b].v.order_by[i].order_by =
                        PositionOf(schema, to_string(items[i].index))]_vars

\* C13 as amended: each sort key of a built Sort is the logical column
\* index of its sort item, the name of the field in the input's schema and
\* not its position, with the item's ascending and nulls-first flags; the
\* keys keep the order of the items and the limit is carried over.
C13_SortKeysAreColumnIndices ==
    [][\A b \in Builders :
        (ChildBuilt(b, "Sort", "input") /\ ret'[b].t = "Ok")
        => LET sort == Top(b).node
               r == ret'[b].v
           IN /\ r.plan = "Sort"
              /\ r.input = ret[b].v
              /\ Len(r.order_by) = Len(sort.items)
              /\ \A i \in 1..Len(sort.items) :
                    /\ r.order_by[i].order_by = sort.items[i].index
                    /\ r.order_by[i].asc = sort.items[i].asc
                    /\ r.order_by[i].nulls_first = sort.items[i].nulls_first
              /\ r.limit = sort.limit]_vars

\* C13 witness: a Sort by column 4 over an input whose field of column 4
\* is at position 0; the key is 4.
C13_Witness ==
    /\ Done("b1")
    /\ s_expr.op = "Sort"
    /\ ret["b1"].t = "Ok"
    /\ ret["b1"].v.plan = "Sort"
    /\ output_schema(ret["b1"].v.input) = <<DataField("4", "Int")>>
    /\ ret["b1"].v.order_by[2] =
            [asc |-> FALSE, nulls_first |-> TRUE, order_by |-> 4]
    /\ ret["b1"].v.limit = Some(3)

\* Builder b takes the step in which its innermost activation hands a plan
\* back to its caller.
ReturnsPlan(b) ==
    /\ stack[b] # <<>>
    /\ ret'[b].t = "Ok"
    /\ Len(stack'[b]) = Len(stack[b]) - 1

\* The estimate the property derivation gives for node.
DerivedEstimate(node) ==
    Some([estimated_rows |-> derive_relational_prop(node).v.cardinality])

\* C14 as claimed: every plan handed back carries an estimate, the one the
\* derivation gives for the node it was built from.
C14_EveryPlanCarriesDerivedEstimate ==
    [][\A b \in Builders :
        ReturnsPlan(b)
        => /\ "stat_info" \in DOMAIN ret'[b].v
           /\ ret'[b].v.stat_info = DerivedEstimate(Top(b).node)]_vars

\* C14 as amended: an Exchange and a RuntimeFilterSource carry no estimate,
\* the table scan of a DummyTableScan carries the estimate 1, and every
\* other plan handed back (with the EvalScalar under an Unnest and the
\* AggregatePartial put under an Exchange) carries the estimate derived for
\* the node it was built from.  The derivation is the first thing a build
\* call does: every activation past its start holds the derived estimate,
\* and a call whose derivation fails ends in that error with no child built
\* and no id drawn.
C14_EstimateWhereCarried ==
    /\ [][\A b \in Builders :
            ReturnsPlan(b)
            => LET node == Top(b).node
                   r == ret'[b].v
                   expected == DerivedEstimate(node)
               IN CASE node.op = "DummyTableScan" ->
                        r.stat_info = Some([estimated_rows |-> 1])
                    [] node.op \in {"Exchange", "RuntimeFilterSource"} ->
                        "stat_info" \notin DOMAIN r
                    [] node.op = "Aggregate" /\ r.plan = "Exchange" ->
                        /\ "stat_info" \notin DOMAIN r
                        /\ r.input.stat_info = expected
                    [] node.op = "EvalScalar" /\ r.plan = "Unnest" ->
                        /\ r.stat_info = expected
                        /\ r.input.stat_info = expected
                    [] OTHER -> r.stat_info = expected]_vars
    /\ [](\A b \in Builders : \A k \in 1..Len(stack[b]) :
            LET f == stack[b][k]
            IN (k < Len(stack[b]) \/ f.pc # "start")
               => /\ derive_relational_prop(f.node).t = "Ok"
                  /\ Some(f.stat_info) = DerivedEstimate(f.node))
    /\ [][\A b \in Builders :
            (/\ stack[b] # <<>>
             /\ Top(b).pc = "start"
             /\ derive_relational_prop(Top(b).node).t = "Err")
            => /\ ret'[b] = derive_relational_prop(Top(b).node)
               /\ Len(stack'[b]) = Len(stack[b]) - 1
               /\ next_plan_id' = next_plan_id]_vars

\* C14 witness: a Filter over a Sort over a scan, with the estimates 21, 14
\* and 7 of the three nodes.
C14_Witness ==
    /\ Done("b1")
    /\ s_expr.op = "Filter"
    /\ ret["b1"].t = "Ok"
    /\ ret["b1"].v.plan = "Filter"
    /\ ret["b1"].v.stat_info = Some([estimated_rows |-> 21])
    /\ ret["b1"].v.input.plan = "Sort"
    /\ ret["b1"].v.input.stat_info = Some([estimated_rows |-> 14])
    /\ ret["b1"].v.input.input.stat_info = Some([estimated_rows |-> 7])

\* C15: when the child an activation waits for ends in an error, the
\* activation's next step hands that same error to its own caller, starts
\* no further child build and draws no id; and every step that produces an
\* error ends the activation that took it.
C15_ErrorsPropagateAtOnce ==
    /\ [][\A b \in Builders :
            (/\ stack[b] # <<>>
             /\ ret[b].t = "Err"
             /\ stack'[b] # stack[b])
            => /\ ret'[b] = ret[b]
               /\ stack'[b] = SubSeq(stack[b], 1, Len(stack[b]) - 1)
               /\ next_plan_id' = next_plan_id]_vars
    /\ [][\A b \in Builders :
            (ret'[b].t = "Err" /\ ret'[b] # ret[b])
            => stack'[b] = SubSeq(stack[b], 1, Len(stack[b]) - 1)]_vars
    /\ [](\A b \in Builders :
            (Done(b) /\ ret[b].t = "Err") => "plan" \notin DOMAIN ret[b])

\* C15 witness: a Join over two scans whose build side failed: the pass
\* ended in that error and the probe side's scan drew no id.
C15_Witness ==
    /\ Done("b1")
    /\ s_expr.op = "Join"
    /\ s_expr.children[1].op = "Scan"
    /\ s_expr.children[2].op = "Scan"
    /\ derive_relational_prop(s_expr.children[1]).t = "Ok"
    /\ ret["b1"] = derive_relational_prop(s_expr.children[2])
    /\ ret["b1"].t = "Err"
    /\ next_plan_id["b1"] = 0

\* Some column reference among scalars names no field of schema.
ColumnMissing(scalars, schema) ==
    \E i \in 1..Len(scalars) :
        /\ scalars[i].t = "BoundColumnRef"
        /\ \A k \in 1..Len(schema) :
                schema[k].name # to_string(scalars[i].index)

\* The step builder b is about to take rebinds, for a Join, EvalScalar,
\* Filter, Exchange, RuntimeFilterSource or Aggregate over built children,
\* a column reference that the schema it is rebound against does not hold.
RebindsMissingColumn(b) ==
    LET node == Top(b).node
        last == output_schema(ret[b].v)
    IN \/ /\ ChildBuilt(b, "Filter", "input")
          /\ ColumnMissing(node.predicates, last)
       \/ /\ ChildBuilt(b, "EvalScalar", "input")
          /\ ColumnMissing([i \in 1..Len(node.items) |->
                                IF node.items[i].scalar.t = "Unnest"
                                THEN node.items[i].scalar.argument
                                ELSE node.items[i].scalar], last)
       \/ /\ ChildBuilt(b, "Exchange", "input")
          /\ node.exchange.t = "Hash"
          /\ ColumnMissing(node.exchange.scalars, last)
       \/ /\ ChildBuilt(b, "Join", "second_side")
          /\ LET build_schema == output_schema(Top(b).built[1])
             IN \/ ColumnMissing(node.right_conditions, build_schema)
                \/ ColumnMissing(node.left_conditions, last)
                \/ ColumnMissing(node.non_equi_conditions,
                                 last \o build_schema)
       \/ /\ ChildBuilt(b, "RuntimeFilterSource", "right")
          /\ LET n == IF Len(node.left_runtime_filters)
                            < Len(node.right_runtime_filters)
                      THEN Len(node.left_runtime_filters)
                      ELSE Len(node.right_runtime_filters)
             IN \/ ColumnMissing(
                        [i \in 1..n |-> node.left_runtime_filters[i][2]],
                        output_schema(Top(b).built[1]))
                \/ ColumnMissing(
                        [i \in 1..n |-> node.right_runtime_filters[i][2]],
                        last)
       \/ /\ ChildBuilt(b, "Aggregate", "input")
          /\ node.mode = "Partial"
          /\ \E i \in 1..Len(node.aggregate_functions) :
                ColumnMissing(node.aggregate_functions[i].scalar.args, last)

\* C16 as claimed: a handler that rebinds a column reference missing from
\* the schema ends by handing an error value to its caller.
C16_MissingColumnIsError ==
    [][\A b \in Builders :
        RebindsMissingColumn(b) => ret'[b].t = "Err"]_vars

\* C17 as claimed: in every plan handed back, the plan id of an EvalScalar,
\* Filter, Sort or Limit is greater than every plan id of the subtree under
\* it.
C17_ChildBuiltBeforeOwnId ==
    \A b \in Builders :
        ret[b].t = "Ok"
        => \A p \in SubPlans(ret[b].v) :
            p.plan \in {"EvalScalar", "Filter", "Sort", "Limit"}
            => \A i \in PlanIds(p.input) : i < p.plan_id

\* C18 as claimed: a built RuntimeFilterSource has the filter ids of the
\* logical left mapping as the keys of its left mapping and those of the
\* logical right mapping as the keys of its right one, each expression the
\* position of its column in the schema of the child on its own side.
C18_FilterKeySetsKept ==
    [][\A b \in Builders :
        (ChildBuilt(b, "RuntimeFilterSource", "right") /\ ret'[b].t = "Ok")
        => LET op == Top(b).node
               r == ret'[b].v
               left_schema == output_schema(r.left_side)
               right_schema == output_schema(r.right_side)
               l == op.left_runtime_filters
               rr == op.right_runtime_filters
           IN /\ DOMAIN r.left_runtime_filters =
                    {l[i][1] : i \in 1..Len(l)}
              /\ DOMAIN r.right_runtime_filters =
                    {rr[i][1] : i \in 1..Len(rr)}
              /\ \A i \in 1..Len(l) :
                    l[i][1] \in DOMAIN r.left_runtime_filters
                    => r.left_runtime_filters[l[i][1]] =
                        ColumnRef(PositionOf(left_schema,
                                             to_string(l[i][2].index)))
              /\ \A i \in 1..Len(rr) :
                    rr[i][1] \in DOMAIN r.right_runtime_filters
                    => r.right_runtime_filters[rr[i][1]] =
                        ColumnRef(PositionOf(right_schema,
                                             to_string(rr[i][2].index)))]_vars

\* C19: in every UnionAll handed back, every plan id of the left subtree is
\* smaller than the UnionAll's, which is smaller than every plan id of the
\* right subtree; the step after the left child draws the UnionAll's id and
\* starts the right child when the left names are all found, and otherwise
\* draws no id and starts no child.
C19_UnionAllIdBetweenChildren ==
    /\ [](\A b \in Builders :
            ret[b].t = "Ok"
            => \A u \in SubPlans(ret[b].v) :
                u.plan = "UnionAll"
                => /\ \A i \in PlanIds(u.left) : i < u.plan_id
                   /\ \A j \in PlanIds(u.right) : u.plan_id < j)
    /\ [][\A b \in Builders :
            ChildBuilt(b, "UnionAll", "left")
            => IF LeftNamesFound(Top(b).node, output_schema(ret[b].v))
               THEN /\ next_plan_id'[b] = next_plan_id[b] + 1
                    /\ Len(stack'[b]) = Len(stack[b]) + 1
                    /\ stack'[b][Len(stack'[b])].node = Top(b).node.children[2]
                    /\ stack'[b][Len(stack'[b])].pc = "start"
               ELSE /\ next_plan_id'[b] = next_plan_id[b]
                    /\ Len(stack'[b]) < Len(stack[b])
                    /\ ret'[b].t = "Err"]_vars

\* C19 witness: a UnionAll with the id 1 between its left scan's 0 and the
\* ids 2 and 3 of the two plans of its right subtree.
C19_Witness ==
    /\ Done("b1")
    /\ ret["b1"].t = "Ok"
    /\ ret["b1"].v.plan = "UnionAll"
    /\ PlanIds(ret["b1"].v.left) = {0}
    /\ ret["b1"].v.plan_id = 1
    /\ PlanIds(ret["b1"].v.right) = {2, 3}

(***************************************************************************)
(* C20.  Abort liveness of the admission queue.                            *)
(***************************************************************************)
\* The acquire a has completed with the abort error.
Aborted(a) ==
    /\ futures[a].result.t = "Err"
    /\ futures[a].result.code = "AbortedQuery"

\* The acquire a is running a poll or its task is due to be polled.
PollToCome(a) ==
    /\ futures[a].pc \notin {"done", "dropped"}
    /\ futures[a].pc # "idle" \/ futures[a].scheduled

\* The caller of acquire a is still awaiting it, or has its result.
Awaited(a) == futures[a].pc \notin {"none", "dropped"}

\* C20: once remove(key) has returned true for the queue entry of a waiting
\* acquire, that acquire (as long as its caller awaits it) completes with the abort error whether or not a
\* permit ever comes back: in every state it has either completed with the
\* abort error already, or a poll of it is running or is still to come
\* without any help from the semaphore.
C20_RemovedAcquireAborts ==
    \A a \in Acquires :
        futures[a].removed /\ Awaited(a) => Aborted(a) \/ PollToCome(a)

(***************************************************************************)
(* C21.  Throttling by the admission queue.                                *)
(***************************************************************************)
\* The permits the QueueManager of the model was created with.
Capacity == create_permits(MaxPermits)

\* The acquires whose AcquireQueueGuard is alive.
LiveGuards == {a \in Acquires : futures[a].guard}

\* The acquire a is completing: a permit has been set aside for it or taken
\* by its inner future, and its poll has not returned the result yet.
MidCompletion(a) == futures[a].inner \in {"granted", "acquired"}

\* C21: never more live guards than permits the manager was created with; an
\* acquire that completed with an error holds no permit; and with no acquire
\* in the middle of completing, the permits held by guards and the free
\* permits add up to the permits the manager was created with.
C21_GuardsWithinPermits ==
    /\ Cardinality(LiveGuards) <= Capacity
    /\ \A a \in Acquires :
            futures[a].result.t = "Err" =>
                ~futures[a].guard /\ futures[a].inner = "dropped"
    /\ (\A a \in Acquires : ~MidCompletion(a)) =>
            Cardinality(LiveGuards) + semaphore.permits = Capacity

\* One acquire holds its guard, another has completed with the abort error,
\* and no permit is in flight.
C21_Witness ==
    \E a, b \in Acquires :
        /\ futures[a].guard
        /\ Aborted(b)
        /\ semaphore.permits = Capacity - 1
        /\ \A c \in Acquires : ~MidCompletion(c)

(***************************************************************************)
(* C22.  Abort exactness of the admission queue.                           *)
(***************************************************************************)
\* A call of remove has taken the queue entry registered by acquire a: it has
\* returned true, or it is between queue.remove and its return of true.
RemoveTookEntryOf(a) ==
    \/ futures[a].removed
    \/ remover.inner.t = "Some" /\ remover.inner.v.waker = a

\* C22: an acquire that has completed has completed with the abort error if
\* and only if a remove call for its key took the acquire's own queue entry,
\* and with a guard otherwise, whatever keys the pending acquires carry.
C22_AbortedIffRemoved ==
    \A a \in Acquires :
        futures[a].pc = "done" =>
            /\ Aborted(a) <=> RemoveTookEntryOf(a)
            /\ ~Aborted(a) => futures[a].result = Ok("AcquireQueueGuard")

(***************************************************************************)
(* C23.  Membership of the queue map.                                      *)
(***************************************************************************)
\* The acquires that have an entry in the queue map (the entries list()
\* returns).
Queued == {queue[k].v.waker : k \in {key \in Keys : queue[key].t = "Some"}}

\* The acquire a has been called and has neither completed nor been dropped.
Pending(a) == futures[a].pc \notin {"none", "done", "dropped"}

\* C23: every entry of the queue map belongs to an acquire that is still
\* pending; an acquire that got its permit on its first poll was never
\* entered; an acquire that has completed, or whose future was dropped, has
\* no entry.
C23_QueuedAcquiresArePending ==
    \A a \in Acquires :
        /\ a \in Queued => Pending(a)
        /\ ~futures[a].has_pending => a \notin Queued
        /\ futures[a].pc \in {"done", "dropped"} => a \notin Queued

(***************************************************************************)
(* C24.  The result cache reader.                                          *)
(***************************************************************************)
\* The meta store holds an entry for the query key whose partitions_sha is
\* the reader's current one.
ValidEntry ==
    /\ reader.meta.t = "Ok"
    /\ reader.meta.v.t = "Some"
    /\ reader.meta.v.v.partitions_sha = reader.partitions_sha

\* try_read_cached_result has returned a result set.
ReturnsResultSet == reader.result.t = "Ok" /\ reader.result.v.t = "Some"

\* C24: when try_read_cached_result has returned, a result set is returned
\* only for an entry with the reader's current partitions_sha; no entry or
\* another sha gives None and no storage read; a valid entry of num_rows = 0
\* gives one empty block and no storage read; a failure of the meta store or
\* of the storage read gives that error, neither None nor a result set.
C24_CachedResultOnlyWhenValid ==
    reader.pc = "done" =>
        /\ ReturnsResultSet => ValidEntry
        /\ reader.meta.t = "Ok" /\ ~ValidEntry =>
                reader.result = Ok(None) /\ reader.reads = 0
        /\ ValidEntry /\ reader.meta.v.v.num_rows = 0 =>
                reader.result = Ok(Some(<<EmptyBlock>>)) /\ reader.reads = 0
        /\ reader.meta.t = "Err" =>
                reader.result = reader.meta /\ reader.reads = 0
        /\ ValidEntry /\ reader.meta.v.v.num_rows > 0 =>
                LET data == reader.storage[reader.meta.v.v.location]
                IN /\ reader.reads = 1
                   /\ data.t = "Err" => reader.result = data
                   /\ data.t = "Ok" /\ data.v.decodes =>
                        reader.result = Ok(Some(data.v.blocks))

\* A call has returned None for an entry stored under another sha although
\* the storage holds a readable result set at its location.
C24_Witness ==
    /\ reader.pc = "done"
    /\ reader.meta.t = "Ok"
    /\ reader.meta.v.t = "Some"
    /\ reader.meta.v.v.partitions_sha # reader.partitions_sha
    /\ reader.meta.v.v.num_rows > 0
    /\ reader.storage[reader.meta.v.v.location].t = "Ok"
    /\ reader.storage[reader.meta.v.v.location].v.decodes
    /\ reader.result = Ok(None)

====
